---------------------------- MODULE Spec2Model ----------------------------
(***************************************************************************)
(* A model of the dataviz-enhanced highlight detectors                     *)
(* (scripts/detect_highlights.py) and of the data reduction pipeline       *)
(* reduce_data (scripts/generate_chart.py).                                *)
(*                                                                         *)
(* Numbers.  The detectors work on a numpy array of floats that may hold   *)
(* NaN.  An entry is modelled as a record: Missing for NaN, Num(v) for the *)
(* integer-valued float v.  All statistics are computed exactly: a         *)
(* comparison between quotients or square roots is modelled by the         *)
(* equivalent comparison between integers (both sides multiplied by the    *)
(* positive denominators, or squared when both are non-negative).  For     *)
(* integer-valued inputs of this size the float computation is exact in    *)
(* the means and in the zero tests, so the model and the code agree.       *)
(* Thresholds and the IQR multiplier are given in halves (thr2 = 2 * t).   *)
(*                                                                         *)
(* A highlight record keeps the fields index, value, reason, method,       *)
(* severity and suggested_style; the formatted label and the rounded       *)
(* diagnostic metrics (z_score, shift_magnitude) are left out.             *)
(***************************************************************************)
EXTENDS Integers, Sequences, FiniteSets, TLC

VARIABLES
    dd_pc,        \* deduplicate harness: "input", "once", "twice"
    dd_input,     \* the list handed to deduplicate
    dd_output,    \* deduplicate(dd_input)
    dd_again,     \* deduplicate(dd_output)
    values,       \* detector harness: the numeric sequence
    called,       \* the detector call made: [fn, ...parameters], or [fn |-> "none"]
    result,       \* what that call returned
    pc,           \* main: "idle", "detect", "write", "done"
    args,         \* main: the parsed command line
    mi,           \* main: position in args.methods of the detector loop
    all_highlights, \* main: the candidates collected so far
    main_highlights, \* main: highlights = deduplicate(all_highlights), once computed
    output,       \* the output file: [written |-> FALSE] or its content
    writes,       \* how many times the output file was opened for writing
    exited,       \* main: "no", "ok" (returned), "error" (sys.exit(1)),
                  \* "exception" (an exception left main)
    data_file,    \* main: the data file named on the command line
    stderr,       \* main: the diagnostic printed to stderr, "" when none
    rd_pc,        \* reduce_data harness: "idle", "input", "done"
    rd_df,        \* the table handed to reduce_data
    rd_kwargs,    \* the keyword arguments of the call
    rd_out,       \* what the call did: a returned table or a raised exception
    gen_pc,       \* generate: "idle", "start", "reduce", "render", "done"
    gen_call,     \* generate: x_col, the y columns, extra_cols and the reduction kwargs
    gen_loaded,   \* generate: the table as loaded from the data file
    gen_df,       \* generate: df, the table handed on to the renderer
    gen_exited,   \* generate: "no", "ok", "error" (sys.exit(1)), "exception"
    gen_stderr    \* generate: the diagnostic printed to stderr, "" when none

mainVars == <<pc, args, mi, all_highlights, main_highlights, output, writes, exited,
              data_file, stderr>>

reduceVars == <<rd_pc, rd_df, rd_kwargs, rd_out>>

genVars == <<gen_pc, gen_call, gen_loaded, gen_df, gen_exited, gen_stderr>>

vars == <<dd_pc, dd_input, dd_output, dd_again, values, called, result,
          pc, args, mi, all_highlights, main_highlights, output, writes, exited,
          data_file, stderr,
          rd_pc, rd_df, rd_kwargs, rd_out,
          gen_pc, gen_call, gen_loaded, gen_df, gen_exited, gen_stderr>>

-----------------------------------------------------------------------------
(* Bounds of the model *)

MaxLen == 3      \* deduplicate inputs hold at most MaxLen records
MaxIdx == 2      \* their indices range over 0..MaxIdx
MaxN == 5        \* numeric sequences hold at most MaxN entries
MaxVal == 2      \* their non-missing entries range over 0..MaxVal
MaxCpN == 7      \* sequences given to detect_changepoint: at most MaxCpN entries
MaxCpVal == 1    \* their non-missing entries range over 0..MaxCpVal
MaxW == 3        \* changepoint windows range over 0..MaxW
MainN == 5       \* a run of main analyses a column of MainN entries
MaxMethods == 2  \* and is given at most MaxMethods method names,
MaxShort == 2    \* or a short column of at most MaxShort entries
MaxRows == 3     \* reduce_data is called on tables of at most MaxRows rows,
MaxTop == 2      \* with top and bottom at most MaxTop
MaxK == 2        \* and max_categories at most MaxK

-----------------------------------------------------------------------------
(* deduplicate *)

Severities == {"low", "medium", "high"}

severity_order(s) ==
    CASE s = "high" -> 3
      [] s = "medium" -> 2
      [] s = "low" -> 1
      [] OTHER -> 0

SeenPos_Nearby(seen, idx) ==
    IF \E p \in 1..Len(seen) : seen[p].index \in {idx - 1, idx, idx + 1}
    THEN CHOOSE p \in 1..Len(seen) : seen[p].index \in {idx - 1, idx, idx + 1}
    ELSE 0

\* Position of the record stored under key idx in the dict `seen` (kept as the
\* sequence of its values in insertion order), or 0 when idx is not a key.
SeenPos(seen, idx) ==
    IF \E p \in 1..Len(seen) : seen[p].index = idx
    THEN CHOOSE p \in 1..Len(seen) : seen[p].index = idx
    ELSE 0

Replaces_KeepsLast(hl, cur) ==
    severity_order(hl.severity) >= severity_order(cur.severity)

\* The second half of the loop's condition: hl takes the place of cur.
Replaces(hl, cur) ==
    severity_order(hl.severity) > severity_order(cur.severity)

DedupStep_KeepsFirst(seen, hl) ==
    IF SeenPos(seen, hl.index) = 0 THEN Append(seen, hl) ELSE seen

\* One iteration of the loop: seen[idx] = hl when idx is new (appended to the
\* dict) or hl is more severe (the dict keeps the key's place).
DedupStep(seen, hl) ==
    LET p == SeenPos(seen, hl.index) IN
    IF p = 0 THEN Append(seen, hl)
    ELSE IF Replaces(hl, seen[p]) THEN [seen EXCEPT ![p] = hl]
    ELSE seen

RECURSIVE DedupLoop(_, _, _)
DedupLoop(hls, k, seen) ==
    IF k > Len(hls) THEN seen
    ELSE DedupLoop(hls, k + 1, DedupStep(seen, hls[k]))

\* Stable insertion of h into a list sorted by index.
RECURSIVE InsertByIndex(_, _)
InsertByIndex(sorted, h) ==
    IF sorted = <<>> THEN <<h>>
    ELSE IF h.index < Head(sorted).index THEN <<h>> \o sorted
    ELSE <<Head(sorted)>> \o InsertByIndex(Tail(sorted), h)

RECURSIVE SortLoop(_, _, _)
SortLoop(s, k, acc) ==
    IF k = 0 THEN acc
    ELSE SortLoop(s, k - 1, InsertByIndex(acc, s[k]))

sorted_by_index_Unsorted(s) == s

\* sorted(seen.values(), key=lambda h: h["index"]): a stable sort.
sorted_by_index(s) == SortLoop(s, Len(s), <<>>)

deduplicate_StopsOneShort(hls) ==
    sorted_by_index(DedupLoop(SubSeq(hls, 1, Len(hls) - 1), 1, <<>>))

deduplicate(hls) == sorted_by_index(DedupLoop(hls, 1, <<>>))

-----------------------------------------------------------------------------
(* Numeric sequences *)

Missing == [nan |-> TRUE]
Num(x) == [nan |-> FALSE, v |-> x]
isnan(e) == e.nan

\* The floats of a sequence of integers.
Floats(ints) == [k \in 1..Len(ints) |-> Num(ints[k])]

\* values[~np.isnan(values)], as a sequence of integers.
RECURSIVE Clean(_)
Clean(vs) ==
    IF vs = <<>> THEN <<>>
    ELSE IF isnan(Head(vs)) THEN Clean(Tail(vs))
    ELSE <<Head(vs).v>> \o Clean(Tail(vs))

RECURSIVE Sum(_)
Sum(xs) == IF xs = <<>> THEN 0 ELSE Head(xs) + Sum(Tail(xs))

RECURSIVE SumSq(_)
SumSq(xs) == IF xs = <<>> THEN 0 ELSE Head(xs) * Head(xs) + SumSq(Tail(xs))

\* n^2 times the population variance of xs: n * sum(x^2) - sum(x)^2.
VarN2(xs) == Len(xs) * SumSq(xs) - Sum(xs) * Sum(xs)

Highlight(i, v, reason, method, severity, style) ==
    [index |-> i, value |-> v, reason |-> reason, method |-> method,
     severity |-> severity, suggested_style |-> style]

-----------------------------------------------------------------------------
(* detect_zscore *)

\* std == 0.  Over no value at all nanstd is NaN, which is not equal to 0.
StdIsZero(clean) == Len(clean) > 0 /\ VarN2(clean) = 0

\* n * (v - mean), which has the sign of z = (v - mean) / std.
ZNum_Negated(clean, v) == Sum(clean) - Len(clean) * v

ZNum(clean, v) == Len(clean) * v - Sum(clean)

AbsZExceeds_OrEqual(clean, v, thr2) ==
    4 * ZNum(clean, v) * ZNum(clean, v) >= thr2 * thr2 * VarN2(clean)

\* abs(z) > thr2 / 2, with z^2 = ZNum^2 / VarN2 and std > 0, thr2 >= 0.
AbsZExceeds(clean, v, thr2) ==
    4 * ZNum(clean, v) * ZNum(clean, v) > thr2 * thr2 * VarN2(clean)

ZscoreRecord(clean, i, v, thr2) ==
    LET severity == IF AbsZExceeds(clean, v, thr2 + 2) THEN "high" ELSE "medium"
        direction == IF ZNum(clean, v) > 0 THEN "above" ELSE "below"
    IN  Highlight(i, v,
                  IF direction = "above" THEN "Z-score outlier (above mean)"
                  ELSE "Z-score outlier (below mean)",
                  "zscore", severity,
                  IF severity = "high" THEN "halo_ring" ELSE "color_shift")

\* The loop over enumerate(values); position k holds index k - 1.
RECURSIVE ZscoreLoop(_, _, _, _, _)
ZscoreLoop(vs, clean, thr2, k, highlights) ==
    IF k > Len(vs) THEN highlights
    ELSE IF isnan(vs[k]) THEN ZscoreLoop(vs, clean, thr2, k + 1, highlights)
    ELSE IF AbsZExceeds(clean, vs[k].v, thr2)
         THEN ZscoreLoop(vs, clean, thr2, k + 1,
                         Append(highlights, ZscoreRecord(clean, k - 1, vs[k].v, thr2)))
         ELSE ZscoreLoop(vs, clean, thr2, k + 1, highlights)

detect_zscore(vs, thr2) ==
    IF StdIsZero(Clean(vs)) THEN <<>>
    ELSE ZscoreLoop(vs, Clean(vs), thr2, 1, <<>>)

-----------------------------------------------------------------------------
(* detect_iqr *)

RECURSIVE InsertInt(_, _)
InsertInt(sorted, x) ==
    IF sorted = <<>> THEN <<x>>
    ELSE IF x < Head(sorted) THEN <<x>> \o sorted
    ELSE <<Head(sorted)>> \o InsertInt(Tail(sorted), x)

RECURSIVE SortInts(_)
SortInts(xs) == IF xs = <<>> THEN <<>> ELSE InsertInt(SortInts(Tail(xs)), Head(xs))

\* 4 * np.percentile(xs, 25 * quarters), linear interpolation: the virtual
\* index is quarters * (n - 1) / 4, between the sorted entries lo and lo + 1.
PercentileX4(xs, quarters) ==
    LET s == SortInts(xs)
        h == quarters * (Len(xs) - 1)
        lo == h \div 4
        r == h % 4
    IN  IF r = 0 THEN 4 * s[lo + 1]
        ELSE 4 * s[lo + 1] + r * (s[lo + 2] - s[lo + 1])

Iqr4(clean) == PercentileX4(clean, 3) - PercentileX4(clean, 1)

Lower8_Plus(clean, mul2) == 2 * PercentileX4(clean, 1) + mul2 * Iqr4(clean)

\* 8 * lower and 8 * upper, the multiplier being mul2 / 2.
Lower8(clean, mul2) == 2 * PercentileX4(clean, 1) - mul2 * Iqr4(clean)
Upper8(clean, mul2) == 2 * PercentileX4(clean, 3) + mul2 * Iqr4(clean)

IqrSeverity_OrEqual(clean, v, mul2) ==
    LET distance8 == IF 8 * v > Upper8(clean, mul2) THEN 8 * v - Upper8(clean, mul2)
                     ELSE Lower8(clean, mul2) - 8 * v
    IN  IF distance8 >= 2 * Iqr4(clean) THEN "high" ELSE "medium"

\* distance = (v - upper) / iqr or (lower - v) / iqr; high when distance > 1.0.
IqrSeverity(clean, v, mul2) ==
    LET distance8 == IF 8 * v > Upper8(clean, mul2) THEN 8 * v - Upper8(clean, mul2)
                     ELSE Lower8(clean, mul2) - 8 * v
    IN  IF distance8 > 2 * Iqr4(clean) THEN "high" ELSE "medium"

IqrRecord(clean, i, v, mul2) ==
    Highlight(i, v,
              IF 8 * v > Upper8(clean, mul2) THEN "IQR outlier (above Q3)"
              ELSE "IQR outlier (below Q1)",
              "iqr", IqrSeverity(clean, v, mul2), "annotation_arrow")

\* v < lower or v > upper
IqrOutside(clean, v, mul2) ==
    8 * v < Lower8(clean, mul2) \/ 8 * v > Upper8(clean, mul2)

RECURSIVE IqrLoop(_, _, _, _, _)
IqrLoop(vs, clean, mul2, k, highlights) ==
    IF k > Len(vs) THEN highlights
    ELSE IF isnan(vs[k]) THEN IqrLoop(vs, clean, mul2, k + 1, highlights)
    ELSE IF IqrOutside(clean, vs[k].v, mul2)
         THEN IqrLoop(vs, clean, mul2, k + 1,
                      Append(highlights, IqrRecord(clean, k - 1, vs[k].v, mul2)))
         ELSE IqrLoop(vs, clean, mul2, k + 1, highlights)

detect_iqr_NoZeroGuard(vs, mul2) ==
    IF Len(Clean(vs)) < 4 THEN <<>>
    ELSE IqrLoop(vs, Clean(vs), mul2, 1, <<>>)

detect_iqr(vs, mul2) ==
    IF Len(Clean(vs)) < 4 THEN <<>>
    ELSE IF Iqr4(Clean(vs)) = 0 THEN <<>>
    ELSE IqrLoop(vs, Clean(vs), mul2, 1, <<>>)

-----------------------------------------------------------------------------
(* detect_minmax *)

RECURSIVE MinOf(_)
MinOf(xs) ==
    IF Len(xs) = 1 THEN Head(xs)
    ELSE LET m == MinOf(Tail(xs)) IN IF Head(xs) < m THEN Head(xs) ELSE m

RECURSIVE MaxOf(_)
MaxOf(xs) ==
    IF Len(xs) = 1 THEN Head(xs)
    ELSE LET m == MaxOf(Tail(xs)) IN IF Head(xs) > m THEN Head(xs) ELSE m

RECURSIVE FirstMatch_Last(_, _, _)
FirstMatch_Last(vs, target, k) ==
    IF k > Len(vs) THEN 0
    ELSE LET later == FirstMatch_Last(vs, target, k + 1) IN
         IF later # 0 THEN later
         ELSE IF ~isnan(vs[k]) /\ vs[k].v = target THEN k ELSE 0

\* A scan of enumerate(values) from position k that breaks at the first
\* non-missing entry equal to target; 0 when there is none.
RECURSIVE FirstMatch(_, _, _)
FirstMatch(vs, target, k) ==
    IF k > Len(vs) THEN 0
    ELSE IF isnan(vs[k]) THEN FirstMatch(vs, target, k + 1)
    ELSE IF vs[k].v = target THEN k
    ELSE FirstMatch(vs, target, k + 1)

MinmaxRecord_OneBased(vs, k, reason) ==
    Highlight(k, vs[k].v, reason, "minmax", "low", "annotation_arrow")

\* The record of the entry at position k, which enumerate numbers k - 1.
MinmaxRecord(vs, k, reason) ==
    Highlight(k - 1, vs[k].v, reason, "minmax", "low", "annotation_arrow")

detect_minmax_MinFirst(vs) ==
    IF Len(Clean(vs)) = 0 THEN <<>>
    ELSE LET kmax == FirstMatch(vs, MaxOf(Clean(vs)), 1)
             kmin == FirstMatch(vs, MinOf(Clean(vs)), 1)
         IN  (IF kmin = 0 THEN <<>> ELSE <<MinmaxRecord(vs, kmin, "Global minimum")>>)
             \o (IF kmax = 0 THEN <<>> ELSE <<MinmaxRecord(vs, kmax, "Global maximum")>>)

detect_minmax(vs) ==
    IF Len(Clean(vs)) = 0 THEN <<>>
    ELSE LET kmax == FirstMatch(vs, MaxOf(Clean(vs)), 1)
             kmin == FirstMatch(vs, MinOf(Clean(vs)), 1)
         IN  (IF kmax = 0 THEN <<>> ELSE <<MinmaxRecord(vs, kmax, "Global maximum")>>)
             \o (IF kmin = 0 THEN <<>> ELSE <<MinmaxRecord(vs, kmin, "Global minimum")>>)

-----------------------------------------------------------------------------
(* detect_changepoint *)

\* values[a:b] for 0-based a <= b, clipped to the sequence as a slice is.
Slice(vs, a, b) ==
    SubSeq(vs, a + 1, IF b > Len(vs) THEN Len(vs) ELSE b)

\* left = values[max(0, i - window):i]
LeftWindow(vs, i, window) == Slice(vs, IF i - window > 0 THEN i - window ELSE 0, i)

\* right = values[i + 1:i + 1 + window]
RightWindow(vs, i, window) == Slice(vs, i + 1, i + 1 + window)

MeanDiffNum_Swapped(l, r) == Sum(l) * Len(r) - Sum(r) * Len(l)

\* right_mean - left_mean, times the positive len(left) * len(right).
MeanDiffNum(l, r) == Sum(r) * Len(l) - Sum(l) * Len(r)

\* pooled_std ^ 2, times the positive nl * nr * (nl + nr).
PooledNum(l, r) == VarN2(l) * Len(r) + VarN2(r) * Len(l)

\* abs(right_mean - left_mean) / pooled_std > thr2 / 2, for pooled_std > 0.
ShiftExceeds(l, r, thr2) ==
    4 * MeanDiffNum(l, r) * MeanDiffNum(l, r) * (Len(l) + Len(r))
        > thr2 * thr2 * Len(l) * Len(r) * PooledNum(l, r)

ChangepointRecord(vs, i, l, r, thr2) ==
    Highlight(i, vs[i + 1].v,
              IF MeanDiffNum(l, r) > 0 THEN "Changepoint (increase)"
              ELSE "Changepoint (decrease)",
              "changepoint",
              IF ShiftExceeds(l, r, thr2 + 2) THEN "high" ELSE "medium",
              "band_shade")

EnoughInWindows_One(l, r) == Len(l) >= 1 /\ Len(r) >= 1

\* not (len(left_clean) < 2 or len(right_clean) < 2)
EnoughInWindows(l, r) == ~(Len(l) < 2 \/ Len(r) < 2)

\* The body of the loop for index i (0-based): the record appended, if any.
ChangepointAt(vs, i, window, thr2) ==
    IF isnan(vs[i + 1]) THEN <<>>
    ELSE LET l == Clean(LeftWindow(vs, i, window))
             r == Clean(RightWindow(vs, i, window))
         IN  IF ~EnoughInWindows(l, r) THEN <<>>
             ELSE IF PooledNum(l, r) = 0 THEN <<>>
             ELSE IF ShiftExceeds(l, r, thr2)
                  THEN <<ChangepointRecord(vs, i, l, r, thr2)>>
                  ELSE <<>>

\* for i in range(window, n - window)
RECURSIVE ChangepointLoop(_, _, _, _, _)
ChangepointLoop(vs, window, thr2, i, highlights) ==
    IF i >= Len(vs) - window THEN highlights
    ELSE ChangepointLoop(vs, window, thr2, i + 1,
                         highlights \o ChangepointAt(vs, i, window, thr2))

detect_changepoint_AtLeastTwo(vs, window, thr2) ==
    LET w == IF window < 2 THEN 2 ELSE window
    IN  IF Len(vs) < w * 2 + 1 THEN <<>>
        ELSE ChangepointLoop(vs, w, thr2, w, <<>>)

detect_changepoint(vs, window, thr2) ==
    IF Len(vs) < window * 2 + 1 THEN <<>>
    ELSE ChangepointLoop(vs, window, thr2, window, <<>>)

-----------------------------------------------------------------------------
(* The detector harness: one detector called on one sequence *)

NoCall == [fn |-> "none"]

NoFile == [written |-> FALSE]

\* The data file is not part of the run.
NoData == [exists |-> FALSE, parses |-> FALSE, columns |-> <<>>]

\* main is not running (the harnesses call the functions directly).
MainIdle ==
    /\ pc = "idle"
    /\ args = [methods |-> <<>>]
    /\ mi = 0
    /\ all_highlights = <<>>
    /\ main_highlights = <<>>
    /\ output = NoFile
    /\ writes = 0
    /\ exited = "no"
    /\ data_file = NoData
    /\ stderr = ""

NoTable == [columns |-> <<>>, numeric |-> {}, rows |-> <<>>]

NoOutcome == [raised |-> FALSE, returned |-> FALSE]

\* reduce_data is not being called.
ReduceIdle ==
    /\ rd_pc = "idle"
    /\ rd_df = NoTable
    /\ rd_kwargs = [y_col |-> ""]
    /\ rd_out = NoOutcome

\* generate is not running.
GenerateIdle ==
    /\ gen_pc = "idle"
    /\ gen_call = [x_col |-> ""]
    /\ gen_loaded = NoTable
    /\ gen_df = NoTable
    /\ gen_exited = "no"
    /\ gen_stderr = ""

Entries == {Missing} \cup {Num(x) : x \in 0..MaxVal}

Scenario1 == Floats(<<10, 10, 10, 10, 100>>)
Scenario2 == Floats(<<1, 2, 3, 4, 5, 4, 3, 2, 1, 50>>)

DetectInputs ==
    UNION {[1..n -> Entries] : n \in 0..MaxN} \cup {Scenario1, Scenario2}

\* Thresholds and multipliers in halves; 5 is detect_zscore's default 2.5,
\* 3 detect_iqr's default 1.5.
Thresholds2 == {1, 3, 4, 5}
Multipliers2 == {1, 3}
DetectInit ==
    /\ MainIdle
    /\ ReduceIdle
    /\ GenerateIdle
    /\ values \in DetectInputs
    /\ called = NoCall
    /\ result = <<>>
    /\ dd_pc = "input"
    /\ dd_input = <<>>
    /\ dd_output = <<>>
    /\ dd_again = <<>>

CallZscore ==
    /\ called = NoCall
    /\ \E thr2 \in Thresholds2 :
        /\ called' = [fn |-> "zscore", threshold2 |-> thr2]
        /\ result' = detect_zscore(values, thr2)
    /\ UNCHANGED <<values, dd_pc, dd_input, dd_output, dd_again>>
    /\ UNCHANGED mainVars
    /\ UNCHANGED reduceVars
    /\ UNCHANGED genVars

CallIqr ==
    /\ called = NoCall
    /\ \E mul2 \in Multipliers2 :
        /\ called' = [fn |-> "iqr", multiplier2 |-> mul2]
        /\ result' = detect_iqr(values, mul2)
    /\ UNCHANGED <<values, dd_pc, dd_input, dd_output, dd_again>>
    /\ UNCHANGED mainVars
    /\ UNCHANGED reduceVars
    /\ UNCHANGED genVars

CallMinmax ==
    /\ called = NoCall
    /\ called' = [fn |-> "minmax"]
    /\ result' = detect_minmax(values)
    /\ UNCHANGED <<values, dd_pc, dd_input, dd_output, dd_again>>
    /\ UNCHANGED mainVars
    /\ UNCHANGED reduceVars
    /\ UNCHANGED genVars

DetectNext == CallZscore \/ CallIqr \/ CallMinmax

SpecDetect == DetectInit /\ [][DetectNext]_vars

-----------------------------------------------------------------------------
(* The changepoint harness: detect_changepoint called on one sequence *)

ChangeEntries == {Missing} \cup {Num(x) : x \in 0..MaxCpVal}

\* Ten-entry noise around a level, averaging about 0.
NoisePatterns ==
    { <<0, 1, 0, -1, 0, 1, 0, -1, 0, 0>>,
      <<1, -1, 1, -1, 1, -1, 1, -1, 1, -1>>,
      <<-1, 0, 1, 1, 0, -1, -1, 0, 1, 0>> }

\* 20 values: ten around 0, then ten around level.
Shifted(a, b, level) ==
    Floats([k \in 1..20 |-> IF k <= 10 THEN a[k] ELSE level + b[k - 10]])

\* Scenario 3: the first 10 values average about 0 and the last 10 about 10,
\* with noise of about 1 (levels 0 and 10) or of about 0.1 (the same in
\* tenths: levels 0 and 100; the shift statistic does not depend on the unit).
Scenario3 ==
    {Shifted(a, b, level) : a \in NoisePatterns, b \in NoisePatterns, level \in {10, 100}}

ChangeInputs ==
    UNION {[1..n -> ChangeEntries] : n \in 0..MaxCpN} \cup Scenario3

\* Shift thresholds in halves; 4 is detect_changepoint's default 2.0.
ShiftThresholds2 == {1, 3, 4}

\* detect_changepoint's default window
DefaultWindow == 5
Windows == 0..MaxW \cup {DefaultWindow}

ChangeInit ==
    /\ MainIdle
    /\ ReduceIdle
    /\ GenerateIdle
    /\ values \in ChangeInputs
    /\ called = NoCall
    /\ result = <<>>
    /\ dd_pc = "input"
    /\ dd_input = <<>>
    /\ dd_output = <<>>
    /\ dd_again = <<>>

CallChangepoint ==
    /\ called = NoCall
    /\ \E window \in Windows, thr2 \in ShiftThresholds2 :
        /\ called' = [fn |-> "changepoint", window |-> window, threshold2 |-> thr2]
        /\ result' = detect_changepoint(values, window, thr2)
    /\ UNCHANGED <<values, dd_pc, dd_input, dd_output, dd_again>>
    /\ UNCHANGED mainVars
    /\ UNCHANGED reduceVars
    /\ UNCHANGED genVars

ChangeNext == CallChangepoint

SpecChange == ChangeInit /\ [][ChangeNext]_vars

-----------------------------------------------------------------------------
(* The deduplicate harness: every list of at most MaxLen records *)

DedupRecords ==
    [index : 0..MaxIdx, severity : Severities, method : {"zscore", "minmax"}]

DedupInputs == UNION {[1..n -> DedupRecords] : n \in 0..MaxLen}

DedupInit ==
    /\ MainIdle
    /\ ReduceIdle
    /\ GenerateIdle
    /\ dd_pc = "input"
    /\ dd_input \in DedupInputs
    /\ dd_output = <<>>
    /\ dd_again = <<>>
    /\ values = <<>>
    /\ called = NoCall
    /\ result = <<>>

CallDeduplicate ==
    /\ dd_pc = "input"
    /\ dd_output' = deduplicate(dd_input)
    /\ dd_pc' = "once"
    /\ UNCHANGED <<dd_input, dd_again, values, called, result>>
    /\ UNCHANGED mainVars
    /\ UNCHANGED reduceVars
    /\ UNCHANGED genVars

CallDeduplicateAgain ==
    /\ dd_pc = "once"
    /\ dd_again' = deduplicate(dd_output)
    /\ dd_pc' = "twice"
    /\ UNCHANGED <<dd_input, dd_output, values, called, result>>
    /\ UNCHANGED mainVars
    /\ UNCHANGED reduceVars
    /\ UNCHANGED genVars

DedupNext == CallDeduplicate \/ CallDeduplicateAgain

SpecDedup == DedupInit /\ [][DedupNext]_vars

-----------------------------------------------------------------------------
(* main: the detector run, from the loaded column to the written file *)

Methods == {"zscore", "iqr", "minmax", "changepoint"}

\* detect_changepoint's default threshold 2.0, in halves: main passes only the
\* window to it.
DefaultShiftThreshold2 == 4

\* The methods dict: the detector a method name stands for, applied to v.
Detector(method_name, v, a) ==
    CASE method_name = "zscore" -> detect_zscore(v, a.threshold2)
      [] method_name = "iqr" -> detect_iqr(v, a.iqr_multiplier2)
      [] method_name = "minmax" -> detect_minmax(v)
      [] method_name = "changepoint" ->
            detect_changepoint(v, a.window, DefaultShiftThreshold2)

Extend_Prepend(all, results) == results \o all

\* all_highlights.extend(results)
Extend(all, results) == all \o results

\* --methods takes one or more names; the runs name each method at most once.
MethodLists ==
    {l \in UNION {[1..n -> Methods] : n \in 1..MaxMethods} :
        \A j, k \in 1..Len(l) : l[j] = l[k] => j = k}

\* The command lines of the runs: --threshold 0.5, the default IQR multiplier
\* 1.5 and --window 2, which a column of MainN entries can fill.
MainArgs ==
    [methods : MethodLists, threshold2 : {1}, iqr_multiplier2 : {3}, window : {2}]

MainLevels == {0, 1, 2}
MainEntries == {Missing} \cup {Num(x) : x \in MainLevels}

\* Columns of at most MaxShort entries, down to the empty column.
ShortInputs == UNION {[1..n -> MainEntries] : n \in 0..MaxShort}

\* values = df[col].astype(float).values
MainInputs ==
    {v \in [1..MainN -> MainEntries] : \A i \in 1..(MainN - 2) : ~isnan(v[i])}
        \cup ShortInputs

HarnessIdle ==
    /\ dd_pc = "input"
    /\ dd_input = <<>>
    /\ dd_output = <<>>
    /\ dd_again = <<>>
    /\ called = NoCall
    /\ result = <<>>

harnessVars == <<dd_pc, dd_input, dd_output, dd_again, called, result>>

\* The state in which the detector loop is entered.
DetectStart ==
    /\ pc = "detect"
    /\ mi = 1
    /\ all_highlights = <<>>
    /\ main_highlights = <<>>
    /\ output = NoFile
    /\ writes = 0
    /\ exited = "no"
    /\ stderr = ""

MainInit ==
    /\ args \in MainArgs
    /\ data_file = NoData
    /\ values \in MainInputs
    /\ DetectStart
    /\ HarnessIdle
    /\ ReduceIdle
    /\ GenerateIdle

\* One iteration of `for method_name in args.methods`.
RunDetector ==
    /\ pc = "detect"
    /\ mi <= Len(args.methods)
    /\ all_highlights' = Extend(all_highlights, Detector(args.methods[mi], values, args))
    /\ mi' = mi + 1
    /\ UNCHANGED <<pc, args, values, main_highlights, output, writes, exited,
                   data_file, stderr>>
    /\ UNCHANGED harnessVars
    /\ UNCHANGED reduceVars
    /\ UNCHANGED genVars

\* The loop is over: highlights = deduplicate(all_highlights).
Deduplicate ==
    /\ pc = "detect"
    /\ mi > Len(args.methods)
    /\ main_highlights' = deduplicate(all_highlights)
    /\ pc' = "write"
    /\ UNCHANGED <<args, values, mi, all_highlights, output, writes, exited,
                   data_file, stderr>>
    /\ UNCHANGED harnessVars
    /\ UNCHANGED reduceVars
    /\ UNCHANGED genVars

WriteOutput_OnlyIfFlagged ==
    /\ pc = "write"
    /\ IF main_highlights = <<>>
       THEN UNCHANGED <<output, writes>>
       ELSE /\ output' = [written |-> TRUE, content |-> main_highlights]
            /\ writes' = writes + 1
    /\ pc' = "done"
    /\ exited' = "ok"
    /\ UNCHANGED <<args, values, mi, all_highlights, main_highlights, data_file, stderr>>
    /\ UNCHANGED harnessVars
    /\ UNCHANGED reduceVars
    /\ UNCHANGED genVars

\* open(args.output, "w"), json.dump(highlights, f), and main returns.
WriteOutput ==
    /\ pc = "write"
    /\ output' = [written |-> TRUE, content |-> main_highlights]
    /\ writes' = writes + 1
    /\ pc' = "done"
    /\ exited' = "ok"
    /\ UNCHANGED <<args, values, mi, all_highlights, main_highlights, data_file, stderr>>
    /\ UNCHANGED harnessVars
    /\ UNCHANGED reduceVars
    /\ UNCHANGED genVars

Next == RunDetector \/ Deduplicate \/ WriteOutput

Spec == MainInit /\ [][Next]_vars

-----------------------------------------------------------------------------
(* main from the command line: the data file is checked and loaded and the  *)
(* column selected before the detector loop is entered.  A column of the    *)
(* loaded table is numeric, with its entries, or text; a text column holds  *)
(* a cell that float() rejects (the loader would have typed it numeric      *)
(* otherwise), so astype(float) raises ValueError on it.                    *)

NumericColumn(name, data) == [name |-> name, numeric |-> TRUE, data |-> data]
TextColumn(name) == [name |-> name, numeric |-> FALSE, data |-> <<>>]

\* args.column not in df.columns, negated
InColumns(f, c) == \E i \in 1..Len(f.columns) : f.columns[i].name = c

ColumnNamed(f, c) == f.columns[CHOOSE i \in 1..Len(f.columns) : f.columns[i].name = c]

\* df.select_dtypes(include=[np.number]).columns
numeric_cols(f) ==
    LET IsNumeric(c) == c.numeric IN SelectSeq(f.columns, IsNumeric)

\* The file exists and the loader returned a table.
Loaded == data_file.exists /\ data_file.parses

\* The column main analyses: args.column, else the first numeric column.
main_col(f, a) ==
    IF a.column # "" THEN a.column ELSE numeric_cols(f)[1].name

\* print(..., file=sys.stderr); sys.exit(1)
Exit1_Continues(message) ==
    /\ stderr' = message
    /\ exited' = "no"
    /\ pc' = "detect"
    /\ mi' = 1
    /\ UNCHANGED <<args, values, all_highlights, main_highlights, output, writes,
                   data_file>>
    /\ UNCHANGED harnessVars
    /\ UNCHANGED reduceVars
    /\ UNCHANGED genVars

Exit1(message) ==
    /\ stderr' = message
    /\ exited' = "error"
    /\ pc' = "done"
    /\ UNCHANGED <<args, values, mi, all_highlights, main_highlights, output, writes,
                   data_file>>
    /\ UNCHANGED harnessVars
    /\ UNCHANGED reduceVars
    /\ UNCHANGED genVars

\* An exception leaves main: the interpreter prints the traceback and exits.
Propagates ==
    /\ stderr' = "Traceback"
    /\ exited' = "exception"
    /\ pc' = "done"
    /\ UNCHANGED <<args, values, mi, all_highlights, main_highlights, output, writes,
                   data_file>>
    /\ UNCHANGED harnessVars
    /\ UNCHANGED reduceVars
    /\ UNCHANGED genVars

\* if not args.data.exists()
FileNotFound ==
    /\ pc = "start"
    /\ ~data_file.exists
    /\ Exit1("Error: Data file not found")

\* pd.read_json / pd.read_csv raises on a file it cannot parse.
LoadRaises ==
    /\ pc = "start"
    /\ data_file.exists
    /\ ~data_file.parses
    /\ Propagates

\* if args.column: if args.column not in df.columns
ColumnNotFound ==
    /\ pc = "start"
    /\ Loaded
    /\ args.column # ""
    /\ ~InColumns(data_file, args.column)
    /\ Exit1("Error: Column not found")

\* else: if len(numeric_cols) == 0
NoNumericColumn ==
    /\ pc = "start"
    /\ Loaded
    /\ args.column = ""
    /\ numeric_cols(data_file) = <<>>
    /\ Exit1("Error: No numeric columns found in data.")

\* The column is selected (the three checks passed).
Selected ==
    /\ Loaded
    /\ IF args.column # "" THEN InColumns(data_file, args.column)
       ELSE numeric_cols(data_file) # <<>>

\* values = df[col].astype(float).values raises ValueError on a text column.
ConversionRaises ==
    /\ pc = "start"
    /\ Selected
    /\ ~ColumnNamed(data_file, main_col(data_file, args)).numeric
    /\ Propagates

\* values = df[col].astype(float).values; all_highlights = []
LoadColumn ==
    /\ pc = "start"
    /\ Selected
    /\ ColumnNamed(data_file, main_col(data_file, args)).numeric
    /\ values' = ColumnNamed(data_file, main_col(data_file, args)).data
    /\ pc' = "detect"
    /\ mi' = 1
    /\ UNCHANGED <<args, all_highlights, main_highlights, output, writes, exited,
                   data_file, stderr>>
    /\ UNCHANGED harnessVars
    /\ UNCHANGED reduceVars
    /\ UNCHANGED genVars

\* The numeric columns of the data files: the first entry 2, then 0, and any
\* two entries at the end.
CliSequences ==
    {v \in MainInputs :
        Len(v) = MainN /\ \A i \in 1..(MainN - 2) : v[i] = Num(IF i = 1 THEN 2 ELSE 0)}

CliXColumns == {TextColumn("x")} \cup {NumericColumn("x", v) : v \in CliSequences}
CliYColumns == {TextColumn("y"), NumericColumn("y", [i \in 1..MainN |-> Num(1)])}

\* The loaded tables: no column, x, or x and y.
CliTables ==
    {<<>>} \cup {<<x>> : x \in CliXColumns}
           \cup {<<x, y>> : x \in CliXColumns, y \in CliYColumns}

\* The data files: missing, not parsable, or holding a table.
DataFiles ==
    {NoData, [exists |-> TRUE, parses |-> FALSE, columns |-> <<>>]}
    \cup {[exists |-> TRUE, parses |-> TRUE, columns |-> t] : t \in CliTables}

\* The command lines: as MainArgs, with --column absent, x, y or z (z is in
\* no table).
CliArgs ==
    [methods : MethodLists, threshold2 : {1}, iqr_multiplier2 : {3}, window : {2},
     column : {"", "x", "y", "z"}]

CliInit ==
    /\ args \in CliArgs
    /\ data_file \in DataFiles
    /\ values = <<>>
    /\ pc = "start"
    /\ mi = 0
    /\ all_highlights = <<>>
    /\ main_highlights = <<>>
    /\ output = NoFile
    /\ writes = 0
    /\ exited = "no"
    /\ stderr = ""
    /\ HarnessIdle
    /\ ReduceIdle
    /\ GenerateIdle

CliNext ==
    \/ FileNotFound
    \/ LoadRaises
    \/ ColumnNotFound
    \/ NoNumericColumn
    \/ ConversionRaises
    \/ LoadColumn
    \/ RunDetector
    \/ Deduplicate
    \/ WriteOutput

SpecCli == CliInit /\ [][CliNext]_vars

-----------------------------------------------------------------------------
(* reduce_data (scripts/generate_chart.py)                                   *)
(*                                                                           *)
(* A table has ordered columns, a set of numeric columns (its dtypes) and    *)
(* ordered rows; a row maps each column to a cell, a number or a text.       *)
(* A keyword argument that was not given is "" (a name) or 0 (a count):      *)
(* the code tests every one of them by truth value, which None, "" and 0     *)
(* share.  sort_values uses numpy's quicksort, which does not fix the order  *)
(* of rows with equal keys, so a sort has a set of outcomes and reduce_data  *)
(* is modelled as the set of outcomes a call can have.  nlargest and         *)
(* nsmallest keep the first occurrences and are deterministic.               *)

NumCell(x) == [text |-> FALSE, v |-> x]
TextCell(s) == [text |-> TRUE, s |-> s]

Returned(df) == [raised |-> FALSE, returned |-> TRUE, df |-> df]
Raised(e) == [raised |-> TRUE, returned |-> FALSE, error |-> e]

\* c in df.columns
HasColumn(df, c) == \E i \in 1..Len(df.columns) : df.columns[i] = c

ColumnSet(df) == {df.columns[i] : i \in 1..Len(df.columns)}

\* The order of the texts that occur in the tables, as Python compares str.
TextOrder == <<"A", "B", "C", "D", "E", "Other">>
TextRank(s) == CHOOSE i \in 1..Len(TextOrder) : TextOrder[i] = s

CellKey(c) == IF c.text THEN TextRank(c.s) ELSE c.v

Min2(a, b) == IF a <= b THEN a ELSE b

\* agg_map.get(agg_func, "mean")
agg_map(agg_func) ==
    IF agg_func \in {"mean", "sum", "median", "count", "min", "max"}
    THEN agg_func ELSE "mean"

RECURSIVE SumOver(_, _, _)
SumOver(rows, c, S) ==
    IF S = {} THEN 0
    ELSE LET i == CHOOSE j \in S : TRUE
         IN  rows[i][c].v + SumOver(rows, c, S \ {i})

\* One aggregate of column c over the rows S of a group.  mean and median are
\* not integer-valued and are not among the functions the runs use.
AggCell(func, rows, c, S) ==
    CASE func = "sum" -> NumCell(SumOver(rows, c, S))
      [] func = "count" -> NumCell(Cardinality(S))
      [] func = "min" ->
            NumCell(CHOOSE x \in {rows[i][c].v : i \in S} :
                        \A i \in S : x <= rows[i][c].v)
      [] func = "max" ->
            NumCell(CHOOSE x \in {rows[i][c].v : i \in S} :
                        \A i \in S : x >= rows[i][c].v)

\* The distinct keys in ascending order (groupby sorts the group keys).
RECURSIVE AscendingCells(_)
AscendingCells(K) ==
    IF K = {} THEN <<>>
    ELSE LET m == CHOOSE c \in K : \A d \in K : CellKey(c) <= CellKey(d)
         IN  <<m>> \o AscendingCells(K \ {m})

\* df.groupby(groupby, as_index=False)[agg_cols].agg(func)
GroupAgg(df, groupby, agg_cols, func) ==
    LET n == Len(df.rows)
        keys == AscendingCells({df.rows[i][groupby] : i \in 1..n})
        cols == {groupby} \cup {agg_cols[i] : i \in 1..Len(agg_cols)}
        Group(k) == {i \in 1..n : df.rows[i][groupby] = k}
    IN  [columns |-> <<groupby>> \o agg_cols,
         numeric |-> {agg_cols[i] : i \in 1..Len(agg_cols)}
                     \cup (df.numeric \cap {groupby}),
         rows |-> [g \in 1..Len(keys) |->
                     [c \in cols |->
                        IF c = groupby THEN keys[g]
                        ELSE AggCell(func, df.rows, c, Group(keys[g]))]]]

\* df.rename(columns={old: new})
Rename(df, old, new) ==
    LET Name(c) == IF c = old THEN new ELSE c
    IN  [columns |-> [i \in 1..Len(df.columns) |-> Name(df.columns[i])],
         numeric |-> {Name(c) : c \in df.numeric},
         rows |-> [i \in 1..Len(df.rows) |->
                     [c \in {Name(d) : d \in ColumnSet(df)} |->
                        IF c = new THEN df.rows[i][old] ELSE df.rows[i][c]]]]

RenamesGroup_WheneverNamed(df, kw) ==
    IF kw.x_col # "" /\ kw.x_col # kw.groupby /\ HasColumn(df, kw.groupby)
    THEN Rename(df, kw.groupby, kw.x_col)
    ELSE df

\* if x_col and x_col not in df.columns and groupby in df.columns: rename
RenamesGroup(df, kw) ==
    IF kw.x_col # "" /\ ~HasColumn(df, kw.x_col) /\ HasColumn(df, kw.groupby)
    THEN Rename(df, kw.groupby, kw.x_col)
    ELSE df

\* Stage 1: aggregation
Aggregate(df, kw) ==
    IF kw.groupby # "" /\ kw.agg # "" /\ HasColumn(df, kw.groupby)
    THEN LET func == agg_map(kw.agg)
             IsAgg(c) == c \in df.numeric /\ c # kw.groupby
             numeric_agg == SelectSeq(df.columns, IsAgg)
             agg_cols == IF numeric_agg # <<>> THEN numeric_agg
                         ELSE IF HasColumn(df, kw.y_col) THEN <<kw.y_col>>
                         ELSE <<>>
         IN  RenamesGroup(GroupAgg(df, kw.groupby, agg_cols, func), kw)
    ELSE df

\* Every order of the rows S ascending by key: rows of equal key in any order.
RECURSIVE SortedOrders(_, _)
SortedOrders(S, key) ==
    IF S = {} THEN {<<>>}
    ELSE UNION {{<<i>> \o t : t \in SortedOrders(S \ {i}, key)} :
                    i \in {j \in S : \A k \in S : key[j] <= key[k]}}

\* The order ascending by key that keeps rows of equal key in their order.
RECURSIVE FirstOrder(_, _)
FirstOrder(S, key) ==
    IF S = {} THEN <<>>
    ELSE LET i == CHOOSE j \in S :
                    \A k \in S : key[j] < key[k] \/ (key[j] = key[k] /\ j <= k)
         IN  <<i>> \o FirstOrder(S \ {i}, key)

SortKey(df, col, ascending) ==
    [i \in 1..Len(df.rows) |->
        IF ascending THEN CellKey(df.rows[i][col]) ELSE 0 - CellKey(df.rows[i][col])]

Reordered(df, order) ==
    [df EXCEPT !.rows = [p \in 1..Len(order) |-> df.rows[order[p]]]]

\* df.sort_values(col, ascending=ascending).reset_index(drop=True)
sort_values(df, col, ascending) ==
    {Reordered(df, o) :
        o \in SortedOrders(1..Len(df.rows), SortKey(df, col, ascending))}

\* sort_col = sort_by or y_primary
sort_col(kw) == IF kw.sort_by # "" THEN kw.sort_by ELSE kw.y_col

\* Stage 2: sort
SortStage_Ascending(df, kw) ==
    IF sort_col(kw) # "" /\ HasColumn(df, sort_col(kw))
    THEN sort_values(df, sort_col(kw), TRUE)
    ELSE {df}

SortStage(df, kw) ==
    IF sort_col(kw) # "" /\ HasColumn(df, sort_col(kw))
    THEN sort_values(df, sort_col(kw), kw.sort_order = "asc")
    ELSE {df}

\* df.nlargest(n, col) (largest = TRUE) and df.nsmallest(n, col), keep="first",
\* on a numeric column.
SelectN(df, n, col, largest) ==
    LET order == FirstOrder(1..Len(df.rows), SortKey(df, col, ~largest))
    IN  Reordered(df, SubSeq(order, 1, Min2(n, Len(order))))

\* nlargest and nsmallest raise TypeError on a column that is not numeric.
RankBy(df, n, col, largest) ==
    IF col \notin df.numeric THEN {Raised("TypeError")}
    ELSE {Returned(t) : t \in sort_values(SelectN(df, n, col, largest), col, ~largest)}

\* Stage 3: top / bottom N
RankLimit_BottomFirst(df, kw) ==
    IF kw.bottom > 0
    THEN IF HasColumn(df, sort_col(kw)) THEN RankBy(df, kw.bottom, sort_col(kw), FALSE)
         ELSE {Returned(df)}
    ELSE IF kw.top > 0
    THEN IF HasColumn(df, sort_col(kw)) THEN RankBy(df, kw.top, sort_col(kw), TRUE)
         ELSE {Returned(df)}
    ELSE {Returned(df)}

RankLimit(df, kw) ==
    IF kw.top > 0
    THEN IF HasColumn(df, sort_col(kw)) THEN RankBy(df, kw.top, sort_col(kw), TRUE)
         ELSE {Returned(df)}
    ELSE IF kw.bottom > 0
    THEN IF HasColumn(df, sort_col(kw)) THEN RankBy(df, kw.bottom, sort_col(kw), FALSE)
         ELSE {Returned(df)}
    ELSE {Returned(df)}

\* other_row: the category is "Other", a numeric column holds the sum of the
\* rows after the first max_categories, any other column holds "Other".
OtherRow_SumsAll(df, kw) ==
    [c \in ColumnSet(df) |->
        IF c = kw.x_col THEN TextCell("Other")
        ELSE IF c \in df.numeric
             THEN NumCell(SumOver(df.rows, c, 1..Len(df.rows)))
             ELSE TextCell("Other")]

OtherRow(df, kw) ==
    [c \in ColumnSet(df) |->
        IF c = kw.x_col THEN TextCell("Other")
        ELSE IF c \in df.numeric
             THEN NumCell(SumOver(df.rows, c, (kw.max_categories + 1)..Len(df.rows)))
             ELSE TextCell("Other")]

\* Stage 4: max categories
Collapse(df, kw) ==
    IF /\ kw.max_categories > 0
       /\ kw.x_col # ""
       /\ HasColumn(df, kw.x_col)
       /\ Len(df.rows) > kw.max_categories
    THEN [columns |-> df.columns,
          numeric |-> df.numeric \ {kw.x_col},
          rows |-> SubSeq(df.rows, 1, kw.max_categories) \o <<OtherRow(df, kw)>>]
    ELSE df

AfterSort_CollapseFirst(s, kw) == RankLimit(Collapse(s, kw), kw)

\* The rank-limit and collapse stages on one outcome s of the sort stage.
AfterSort(s, kw) ==
    {IF r.raised THEN r ELSE Returned(Collapse(r.df, kw)) : r \in RankLimit(s, kw)}

\* reduce_data(df, y_col, **kwargs): every outcome of the call
reduce_data(df, kw) ==
    UNION {AfterSort(s, kw) : s \in SortStage(Aggregate(df, kw), kw)}

-----------------------------------------------------------------------------
(* The reduce_data harness: one call on one table *)

Categories == {"A", "B"}
Cells == {1, 2}
RowIds == <<"r1", "r2", "r3", "r4", "r5", "r6">>

InputColumns == <<"category", "label", "value", "qty">>

\* A table of the category and value columns cs and vs; label names the row
\* and qty is 1 in every row.
TableOf(cs, vs) ==
    [columns |-> InputColumns,
     numeric |-> {"value", "qty"},
     rows |-> [i \in 1..Len(cs) |->
                 [category |-> TextCell(cs[i]), label |-> TextCell(RowIds[i]),
                  value |-> NumCell(vs[i]), qty |-> NumCell(1)]]]

Tables ==
    UNION {{TableOf(cs, vs) : cs \in [1..n -> Categories], vs \in [1..n -> Cells]} :
              n \in 0..MaxRows}

Defaults ==
    [y_col |-> "value", x_col |-> "", groupby |-> "", agg |-> "", top |-> 0,
     bottom |-> 0, sort_by |-> "", sort_order |-> "desc", max_categories |-> 0]

\* Calls that sort and rank; "region" is a column no table has.
RankKwargs ==
    {[Defaults EXCEPT !.sort_by = sb, !.sort_order = so, !.top = t, !.bottom = b] :
        sb \in {"", "category", "region"}, so \in {"asc", "desc"},
        t \in 0..MaxTop, b \in 0..MaxTop}

Groupings ==
    {[groupby |-> "", agg |-> ""], [groupby |-> "category", agg |-> ""],
     [groupby |-> "category", agg |-> "sum"], [groupby |-> "category", agg |-> "count"],
     [groupby |-> "category", agg |-> "max"], [groupby |-> "region", agg |-> "sum"]}

\* Calls that aggregate, rank and collapse.
CollapseKwargs ==
    {[Defaults EXCEPT !.x_col = x, !.groupby = g.groupby, !.agg = g.agg,
                      !.top = t, !.max_categories = k] :
        x \in {"", "category", "value", "region"}, g \in Groupings,
        t \in 0..MaxTop, k \in 0..MaxK}

\* Calls whose value column is not in the table.
NoValueKwargs ==
    {[Defaults EXCEPT !.y_col = "region", !.x_col = "category", !.max_categories = k] :
        k \in 0..MaxK}

Kwargs == RankKwargs \cup CollapseKwargs \cup NoValueKwargs

\* Scenario 4: categories A to E, one row each, max_categories = 3.
Scenario4Tables == {TableOf(<<"A", "B", "C", "D", "E">>, vs) : vs \in [1..5 -> Cells]}
Scenario4Kwargs == [Defaults EXCEPT !.x_col = "category", !.max_categories = 3]

ReduceInputs ==
    (Tables \X Kwargs) \cup (Scenario4Tables \X {Scenario4Kwargs})

ReduceInit ==
    /\ rd_pc = "input"
    /\ \E inp \in ReduceInputs : rd_df = inp[1] /\ rd_kwargs = inp[2]
    /\ rd_out = NoOutcome
    /\ values = <<>>
    /\ MainIdle
    /\ HarnessIdle
    /\ GenerateIdle

CallReduceData ==
    /\ rd_pc = "input"
    /\ rd_out' \in reduce_data(rd_df, rd_kwargs)
    /\ rd_pc' = "done"
    /\ UNCHANGED <<rd_df, rd_kwargs, values>>
    /\ UNCHANGED mainVars
    /\ UNCHANGED harnessVars
    /\ UNCHANGED genVars

ReduceNext == CallReduceData

SpecReduce == ReduceInit /\ [][ReduceNext]_vars

-----------------------------------------------------------------------------
(* generate (scripts/generate_chart.py): the loaded table is validated,      *)
(* reduced and handed to the renderer.  The renderer is the bar chart's,     *)
(* which reads df[x] and every df[y]; what it draws is not modelled.         *)

\* all_cols: x_col, the y columns and the extra columns, those given.
all_cols(call) ==
    LET Given(c) == c # ""
    IN  SelectSeq(<<call.x_col>> \o call.y_cols \o call.extra_cols, Given)

\* if groupby_col and groupby_col in df.columns: continue
skips_validation(df, call) ==
    call.kwargs.groupby # "" /\ HasColumn(df, call.kwargs.groupby)

\* A column of all_cols fails the validation: it is not in the table, and the
\* group-by column is not in the table either.
fails_validation(df, call) ==
    \E i \in 1..Len(all_cols(call)) :
        /\ ~HasColumn(df, all_cols(call)[i])
        /\ ~skips_validation(df, call)

\* has_reduction = any(kwargs.get(k) for k in ("agg", "groupby", "top",
\* "bottom", "max_categories"))
has_reduction(kw) ==
    \/ kw.agg # ""
    \/ kw.groupby # ""
    \/ kw.top # 0
    \/ kw.bottom # 0
    \/ kw.max_categories # 0

\* reduce_data(df, y_cols or y_col, x_col=x_col, **kwargs): its arguments
reduce_kwargs(call) ==
    [y_col |-> call.y_cols[1], x_col |-> call.x_col,
     groupby |-> call.kwargs.groupby, agg |-> call.kwargs.agg,
     top |-> call.kwargs.top, bottom |-> call.kwargs.bottom,
     sort_by |-> call.kwargs.sort_by, sort_order |-> call.kwargs.sort_order,
     max_categories |-> call.kwargs.max_categories]

GenerateEnds(status, message) ==
    /\ gen_pc' = "done"
    /\ gen_exited' = status
    /\ gen_stderr' = message
    /\ UNCHANGED <<gen_call, gen_loaded, gen_df>>
    /\ UNCHANGED <<values, mainVars, harnessVars, reduceVars>>

\* The validation loop reaches a missing column: print and sys.exit(1).
ValidationFails ==
    /\ gen_pc = "start"
    /\ fails_validation(gen_df, gen_call)
    /\ GenerateEnds("error", "Error: Column not found")

\* The validation loop ends without an exit.
ValidationPasses ==
    /\ gen_pc = "start"
    /\ ~fails_validation(gen_df, gen_call)
    /\ gen_pc' = "reduce"
    /\ UNCHANGED <<gen_call, gen_loaded, gen_df, gen_exited, gen_stderr>>
    /\ UNCHANGED <<values, mainVars, harnessVars, reduceVars>>

\* if has_reduction: df = reduce_data(...) returns
ReduceTable ==
    /\ gen_pc = "reduce"
    /\ has_reduction(gen_call.kwargs)
    /\ \E o \in reduce_data(gen_df, reduce_kwargs(gen_call)) :
          /\ o.returned
          /\ gen_df' = o.df
    /\ gen_pc' = "render"
    /\ UNCHANGED <<gen_call, gen_loaded, gen_exited, gen_stderr>>
    /\ UNCHANGED <<values, mainVars, harnessVars, reduceVars>>

\* if has_reduction: reduce_data raises and the exception leaves generate
ReductionRaises ==
    /\ gen_pc = "reduce"
    /\ has_reduction(gen_call.kwargs)
    /\ \E o \in reduce_data(gen_df, reduce_kwargs(gen_call)) : o.raised
    /\ GenerateEnds("exception", "Traceback")

\* has_reduction is false: the table is rendered as loaded
SkipReduction ==
    /\ gen_pc = "reduce"
    /\ ~has_reduction(gen_call.kwargs)
    /\ gen_pc' = "render"
    /\ UNCHANGED <<gen_call, gen_loaded, gen_df, gen_exited, gen_stderr>>
    /\ UNCHANGED <<values, mainVars, harnessVars, reduceVars>>

\* The renderer can read its columns from df.
Renderable(df, call) ==
    /\ HasColumn(df, call.x_col)
    /\ \A i \in 1..Len(call.y_cols) : HasColumn(df, call.y_cols[i])

\* renderer(ax, df, x_col, y_cols, ...) and the chart is saved
Render ==
    /\ gen_pc = "render"
    /\ Renderable(gen_df, gen_call)
    /\ GenerateEnds("ok", "")

\* df[x] or df[col] raises KeyError in the renderer
RenderRaises ==
    /\ gen_pc = "render"
    /\ ~Renderable(gen_df, gen_call)
    /\ GenerateEnds("exception", "Traceback")

\* The reduction options of the calls.
GenerateKwargs ==
    {[groupby |-> g.groupby, agg |-> g.agg, top |-> t, bottom |-> 0,
      sort_by |-> sb, sort_order |-> so, max_categories |-> 0] :
        g \in {[groupby |-> "", agg |-> ""], [groupby |-> "category", agg |-> ""],
               [groupby |-> "category", agg |-> "sum"]},
        t \in {0, 1}, sb \in {"", "qty", "category"}, so \in {"asc", "desc"}}

\* The calls: x is category or region, y is value or region, and the colour
\* column is absent or region; no table has a column region.
GenerateCalls ==
    [x_col : {"category", "region"}, y_cols : {<<"value">>, <<"region">>},
     extra_cols : {<<"", "", "">>, <<"region", "", "">>}, kwargs : GenerateKwargs]

GenerateInit ==
    /\ gen_pc = "start"
    /\ gen_call \in GenerateCalls
    /\ gen_loaded \in Tables
    /\ gen_df = gen_loaded
    /\ gen_exited = "no"
    /\ gen_stderr = ""
    /\ values = <<>>
    /\ MainIdle
    /\ HarnessIdle
    /\ ReduceIdle

GenerateNext ==
    \/ ValidationFails
    \/ ValidationPasses
    \/ ReduceTable
    \/ ReductionRaises
    \/ SkipReduction
    \/ Render
    \/ RenderRaises

SpecGenerate == GenerateInit /\ [][GenerateNext]_vars

-----------------------------------------------------------------------------
(* Claims about deduplicate, checked under SpecDedup *)

IndexSet(s) == {s[p].index : p \in 1..Len(s)}

\* Positions of the input's records at index idx, and the earliest of them
\* that carries the greatest severity rank found at idx.
PositionsAt(s, idx) == {q \in 1..Len(s) : s[q].index = idx}

MaxRankAt(s, idx) ==
    CHOOSE r \in 0..3 :
        /\ \E q \in PositionsAt(s, idx) : severity_order(s[q].severity) = r
        /\ \A q \in PositionsAt(s, idx) : severity_order(s[q].severity) <= r

FirstBestAt(s, idx) ==
    CHOOSE q \in PositionsAt(s, idx) :
        /\ severity_order(s[q].severity) = MaxRankAt(s, idx)
        /\ \A q2 \in PositionsAt(s, idx) :
               severity_order(s[q2].severity) = MaxRankAt(s, idx) => q <= q2

\* C1: the list deduplicate returns holds no two records with the same index
\* and is sorted by strictly increasing index.
C1_UniqueSorted ==
    dd_pc # "input" =>
        /\ \A p, q \in 1..Len(dd_output) :
               p # q => dd_output[p].index # dd_output[q].index
        /\ \A p \in 1..Len(dd_output) - 1 :
               dd_output[p].index < dd_output[p + 1].index

\* C1 witness: an input with a repeated index, given in descending order of
\* index, has been deduplicated.
C1_Witness ==
    /\ dd_pc = "once"
    /\ Len(dd_input) = 3
    /\ dd_input[1].index > dd_input[2].index
    /\ dd_input[2].index = dd_input[3].index
    /\ Len(dd_output) = 2

\* C2: for every index of the input, the record kept for it is the first record
\* in input order among the records at that index of maximum severity rank; a
\* later record of equal severity never replaces an earlier one.
C2_FirstOfMaxSeverity ==
    dd_pc # "input" =>
        /\ \A idx \in IndexSet(dd_input) :
               \E p \in 1..Len(dd_output) :
                   dd_output[p] = dd_input[FirstBestAt(dd_input, idx)]
        /\ \A p \in 1..Len(dd_output) :
               /\ dd_output[p].index \in IndexSet(dd_input)
               /\ dd_output[p] = dd_input[FirstBestAt(dd_input, dd_output[p].index)]

\* C2 witness: three records at one index, the last two of the top severity and
\* of different methods; the earlier of those two was kept.
C2_Witness ==
    /\ dd_pc = "once"
    /\ Len(dd_input) = 3
    /\ dd_input[1].index = dd_input[2].index
    /\ dd_input[2].index = dd_input[3].index
    /\ dd_input[1].severity = "medium"
    /\ dd_input[2].severity = "high"
    /\ dd_input[3].severity = "high"
    /\ dd_input[2].method # dd_input[3].method
    /\ dd_output = <<dd_input[2]>>

\* C3: deduplicate is idempotent: deduplicate(deduplicate(L)) is the same list,
\* records and order, as deduplicate(L).
C3_Idempotent ==
    dd_pc = "twice" => dd_again = dd_output

\* C3 witness: deduplicate ran twice on a list it had to shorten and reorder.
C3_Witness ==
    /\ dd_pc = "twice"
    /\ Len(dd_input) = 3
    /\ Len(dd_output) = 2
    /\ dd_input[1].index > dd_input[3].index
    /\ dd_again = dd_output

\* C4: only exact-index collisions are merged: the output's indices are the
\* input's indices, every output record is an input record unchanged, and
\* records at adjacent but distinct indices are all kept.
C4_OnlyExactCollisions ==
    dd_pc # "input" =>
        /\ IndexSet(dd_output) = IndexSet(dd_input)
        /\ Len(dd_output) = Cardinality(IndexSet(dd_input))
        /\ \A p \in 1..Len(dd_output) :
               \E q \in 1..Len(dd_input) : dd_output[p] = dd_input[q]
        /\ \A i \in IndexSet(dd_input) :
               i + 1 \in IndexSet(dd_input) =>
                   /\ \E p \in 1..Len(dd_output) : dd_output[p].index = i
                   /\ \E p \in 1..Len(dd_output) : dd_output[p].index = i + 1

\* C4 witness: three records of one method at the adjacent indices 0, 1, 2 (as
\* several changepoint hits for one shift) all came through.
C4_Witness ==
    /\ dd_pc = "once"
    /\ Len(dd_input) = 3
    /\ \A p \in 1..3 : dd_input[p].index = p - 1 /\ dd_input[p].method = "zscore"
    /\ dd_output = dd_input

-----------------------------------------------------------------------------
(* Claims about the detectors, checked under SpecDetect.  Their statistics  *)
(* are stated over sets of positions and from the definitions (deviations   *)
(* from the mean, order statistics by rank), not by the code's route.       *)

\* The 0-based indices of the non-missing entries of vs within the set I.
Present(vs, I) == {i \in I : i + 1 \in 1..Len(vs) /\ ~isnan(vs[i + 1])}

AllIndices(vs) == 0..(Len(vs) - 1)

RECURSIVE TotalOver(_, _)
TotalOver(vs, I) ==
    IF I = {} THEN 0
    ELSE LET i == CHOOSE j \in I : TRUE IN vs[i + 1].v + TotalOver(vs, I \ {i})

\* n * (vs[i] - mean over I), n the size of I
DevN(vs, I, i) == Cardinality(I) * vs[i + 1].v - TotalOver(vs, I)

\* The sum over I of DevN^2: n^3 times the population variance over I.
RECURSIVE DevSqOver(_, _, _)
DevSqOver(vs, I, J) ==
    IF J = {} THEN 0
    ELSE LET i == CHOOSE j \in J : TRUE IN
         DevN(vs, I, i) * DevN(vs, I, i) + DevSqOver(vs, I, J \ {i})

SSD(vs, I) == DevSqOver(vs, I, I)

RecordsAt(res, i) == {p \in 1..Len(res) : res[p].index = i}

\* res holds one record for each index of F, none elsewhere, none twice.
FlagsExactly(res, F) ==
    /\ Len(res) = Cardinality(F)
    /\ \A i \in F : RecordsAt(res, i) # {}
    /\ \A p \in 1..Len(res) : res[p].index \in F

\* |z| > thr2 / 2 at index i: z^2 = n * DevN^2 / SSD.
ZBeyond(vs, i, thr2) ==
    LET P == Present(vs, AllIndices(vs)) IN
    4 * Cardinality(P) * DevN(vs, P, i) * DevN(vs, P, i) > thr2 * thr2 * SSD(vs, P)

\* C5: detect_zscore returns nothing when the standard deviation of the
\* non-missing values is zero; otherwise it emits a record at exactly the
\* non-missing positions with |z| > threshold, severity high iff
\* |z| > threshold + 1 and medium otherwise, direction above iff z > 0,
\* suggested_style halo_ring for high and color_shift for medium.
C5_Zscore ==
    called.fn = "zscore" =>
        LET P == Present(values, AllIndices(values))
            t == called.threshold2
        IN  IF P # {} /\ SSD(values, P) = 0 THEN result = <<>>
            ELSE /\ FlagsExactly(result, {i \in P : ZBeyond(values, i, t)})
                 /\ \A p \in 1..Len(result) :
                      LET h == result[p] IN
                      /\ h.method = "zscore"
                      /\ h.severity = IF ZBeyond(values, h.index, t + 2)
                                      THEN "high" ELSE "medium"
                      /\ h.reason = IF DevN(values, P, h.index) > 0
                                    THEN "Z-score outlier (above mean)"
                                    ELSE "Z-score outlier (below mean)"
                      /\ h.suggested_style = IF h.severity = "high"
                                             THEN "halo_ring" ELSE "color_shift"

\* C5 witness: a sequence with a missing entry for which detect_zscore emitted
\* a high record above the mean and a medium record below it, leaving out an
\* entry whose |z| equals the threshold.
C5_Witness ==
    /\ called.fn = "zscore"
    /\ \E k \in 1..Len(values) : isnan(values[k])
    /\ \E p, q \in 1..Len(result) :
        /\ result[p].severity = "high"
        /\ result[p].reason = "Z-score outlier (above mean)"
        /\ result[q].severity = "medium"
        /\ result[q].reason = "Z-score outlier (below mean)"
    /\ \E i \in Present(values, AllIndices(values)) :
        /\ RecordsAt(result, i) = {}
        /\ ~ZBeyond(values, i, called.threshold2)
        /\ ZBeyond(values, i, called.threshold2 - 1)

\* C6 as stated: for [10,10,10,10,100] with z-threshold 2.5, detect_zscore
\* flags index 4 with severity high and a reason containing "above mean".
C6_Original ==
    (called.fn = "zscore" /\ called.threshold2 = 5 /\ values = Scenario1) =>
        \E p \in 1..Len(result) :
            /\ result[p].index = 4
            /\ result[p].severity = "high"
            /\ result[p].reason = "Z-score outlier (above mean)"

\* C6 as amended: for [10,10,10,10,100] the z-score at index 4 is exactly 2.0,
\* so with z-threshold 2.5 (and 2.0) detect_zscore flags nothing; with
\* threshold 1.5 it flags index 4 alone, reason "above mean", severity medium,
\* and with threshold 0.5 index 4 alone with severity high.
C6_Scenario1 ==
    (called.fn = "zscore" /\ values = Scenario1) =>
        /\ called.threshold2 \in {4, 5} => result = <<>>
        /\ called.threshold2 \in {1, 3} =>
            /\ Len(result) = 1
            /\ result[1].index = 4
            /\ result[1].value = 100
            /\ result[1].reason = "Z-score outlier (above mean)"
            /\ result[1].severity = IF called.threshold2 = 1 THEN "high" ELSE "medium"

\* C6 witness: detect_zscore ran on [10,10,10,10,100] with threshold 2.5 and
\* returned the empty list.
C6_Witness ==
    /\ called.fn = "zscore"
    /\ called.threshold2 = 5
    /\ values = Scenario1
    /\ result = <<>>

\* The number of non-missing entries smaller than x, and not larger than x.
CountBelow(vs, P, x) == Cardinality({i \in P : vs[i + 1].v < x})
CountUpTo(vs, P, x) == Cardinality({i \in P : vs[i + 1].v <= x})

\* The k-th smallest (k = 1 for the smallest) of the non-missing entries.
KthSmallest(vs, P, k) ==
    LET i == CHOOSE j \in P :
                 /\ CountBelow(vs, P, vs[j + 1].v) < k
                 /\ k <= CountUpTo(vs, P, vs[j + 1].v)
    IN  vs[i + 1].v

\* 4 * the quartile (quarters = 1 or 3) by linear interpolation between the
\* order statistics around the virtual index quarters * (n - 1) / 4.
QuartileX4(vs, P, quarters) ==
    LET h == quarters * (Cardinality(P) - 1)
        below == KthSmallest(vs, P, (h \div 4) + 1)
    IN  IF h % 4 = 0 THEN 4 * below
        ELSE 4 * below + (h % 4) * (KthSmallest(vs, P, (h \div 4) + 2) - below)

\* 8 * (how far v lies beyond the fence it violates); not positive inside.
Beyond8(vs, P, v, mul2) ==
    LET q1 == QuartileX4(vs, P, 1)
        q3 == QuartileX4(vs, P, 3)
        above == 8 * v - (2 * q3 + mul2 * (q3 - q1))
        below == (2 * q1 - mul2 * (q3 - q1)) - 8 * v
    IN  IF above > 0 THEN above ELSE below

\* C7: detect_iqr returns nothing when fewer than 4 values are non-missing or
\* Q3 - Q1 is zero; otherwise it emits a record at exactly the non-missing
\* positions strictly below Q1 - m*IQR or strictly above Q3 + m*IQR, severity
\* high iff the distance beyond the fence divided by IQR is strictly greater
\* than 1.0 and medium otherwise, suggested_style always annotation_arrow.
C7_Iqr ==
    called.fn = "iqr" =>
        LET P == Present(values, AllIndices(values))
            m == called.multiplier2
        IN  IF Cardinality(P) < 4 THEN result = <<>>
            ELSE IF QuartileX4(values, P, 3) = QuartileX4(values, P, 1)
                 THEN result = <<>>
            ELSE /\ FlagsExactly(result,
                        {i \in P : Beyond8(values, P, values[i + 1].v, m) > 0})
                 /\ \A p \in 1..Len(result) :
                      LET h == result[p] IN
                      /\ h.method = "iqr"
                      /\ h.suggested_style = "annotation_arrow"
                      /\ h.severity =
                           IF Beyond8(values, P, h.value, m)
                                > 2 * (QuartileX4(values, P, 3) - QuartileX4(values, P, 1))
                           THEN "high" ELSE "medium"

\* C7 witness: detect_iqr emitted a medium record whose distance beyond the
\* fence is exactly one IQR, and a record below the lower fence.
C7_Witness ==
    /\ called.fn = "iqr"
    /\ LET P == Present(values, AllIndices(values)) IN
       /\ \E p \in 1..Len(result) :
            /\ result[p].severity = "medium"
            /\ Beyond8(values, P, result[p].value, called.multiplier2)
                 = 2 * (QuartileX4(values, P, 3) - QuartileX4(values, P, 1))
       /\ \E p \in 1..Len(result) :
            result[p].reason = "IQR outlier (below Q1)"

\* C8: for [1,2,3,4,5,4,3,2,1,50] with IQR multiplier 1.5, detect_iqr flags
\* index 9 with a reason stating "above Q3", and flags no other index.
C8_Scenario2 ==
    (called.fn = "iqr" /\ called.multiplier2 = 3 /\ values = Scenario2) =>
        /\ Len(result) = 1
        /\ result[1].index = 9
        /\ result[1].reason = "IQR outlier (above Q3)"

\* C8 witness: detect_iqr ran on that sequence with multiplier 1.5 and flagged
\* the value 50.
C8_Witness ==
    /\ called.fn = "iqr"
    /\ called.multiplier2 = 3
    /\ values = Scenario2
    /\ Len(result) = 1
    /\ result[1].value = 50

\* The smallest index of P whose entry equals x.
SmallestIndexOf(vs, P, x) ==
    CHOOSE i \in P : vs[i + 1].v = x /\ \A j \in P : vs[j + 1].v = x => i <= j

\* C9: detect_minmax returns at most two records, none when all entries are
\* missing: one at the smallest index holding the global maximum and one at the
\* smallest index holding the global minimum, both with severity low.
C9_Minmax ==
    called.fn = "minmax" =>
        LET P == Present(values, AllIndices(values)) IN
        /\ Len(result) <= 2
        /\ P = {} => result = <<>>
        /\ P # {} =>
            LET hi == CHOOSE x \in {values[i + 1].v : i \in P} :
                          \A j \in P : values[j + 1].v <= x
                lo == CHOOSE x \in {values[i + 1].v : i \in P} :
                          \A j \in P : values[j + 1].v >= x
            IN  /\ Len(result) = 2
                /\ \E p \in 1..2 :
                     /\ result[p].reason = "Global maximum"
                     /\ result[p].index = SmallestIndexOf(values, P, hi)
                     /\ result[p].value = hi
                /\ \E p \in 1..2 :
                     /\ result[p].reason = "Global minimum"
                     /\ result[p].index = SmallestIndexOf(values, P, lo)
                     /\ result[p].value = lo
                /\ \A p \in 1..2 : result[p].severity = "low"

\* C9 witness: the maximum and the minimum each occur twice, after a missing
\* first entry, and detect_minmax returned their first occurrences.
C9_Witness ==
    /\ called.fn = "minmax"
    /\ Len(values) = 5
    /\ isnan(values[1])
    /\ values[2] = values[4] /\ values[3] = values[5]
    /\ ~isnan(values[2]) /\ ~isnan(values[3])
    /\ values[2].v > values[3].v
    /\ Len(result) = 2
    /\ result[1].index = 1
    /\ result[2].index = 2

\* The windows of index i as sets of indices, missing entries dropped.
LeftOf(vs, i, w) == Present(vs, (i - w)..(i - 1))
RightOf(vs, i, w) == Present(vs, (i + 1)..(i + w))

\* right_mean - left_mean, times nl * nr.
MeanGap(vs, L, R) ==
    TotalOver(vs, R) * Cardinality(L) - TotalOver(vs, L) * Cardinality(R)

\* pooled_std^2 = (var_l * nl + var_r * nr) / (nl + nr), times
\* nl^2 * nr^2 * (nl + nr); var * n = SSD / n^2.
PooledSq(vs, L, R) ==
    SSD(vs, L) * Cardinality(R) * Cardinality(R)
        + SSD(vs, R) * Cardinality(L) * Cardinality(L)

ShiftBeyond(vs, L, R, thr2) ==
    4 * MeanGap(vs, L, R) * MeanGap(vs, L, R) * (Cardinality(L) + Cardinality(R))
        > thr2 * thr2 * PooledSq(vs, L, R)

\* The conditions C10 lists for a record at index i.
C10_Listed(vs, i, w, thr2) ==
    /\ w <= i /\ i < Len(vs) - w
    /\ Cardinality(LeftOf(vs, i, w)) >= 2
    /\ Cardinality(RightOf(vs, i, w)) >= 2
    /\ PooledSq(vs, LeftOf(vs, i, w), RightOf(vs, i, w)) # 0
    /\ ShiftBeyond(vs, LeftOf(vs, i, w), RightOf(vs, i, w), thr2)

C10_Records(vs, res, w, thr2) ==
    \A p \in 1..Len(res) :
        LET h == res[p]
            L == LeftOf(vs, h.index, w)
            R == RightOf(vs, h.index, w)
        IN  /\ h.method = "changepoint"
            /\ h.severity = IF ShiftBeyond(vs, L, R, thr2 + 2) THEN "high" ELSE "medium"
            /\ h.reason = IF MeanGap(vs, L, R) > 0 THEN "Changepoint (increase)"
                          ELSE "Changepoint (decrease)"

\* C10 as stated: detect_changepoint returns nothing when n < 2W+1; otherwise
\* it emits a record at index i exactly when W <= i < n-W, both windows hold at
\* least 2 non-missing values, the pooled standard deviation is non-zero and
\* the shift exceeds the threshold; severity high iff the shift exceeds
\* threshold+1, direction increase iff right_mean > left_mean.
C10_Original ==
    called.fn = "changepoint" =>
        LET w == called.window
            t == called.threshold2
        IN  IF Len(values) < 2 * w + 1 THEN result = <<>>
            ELSE /\ FlagsExactly(result,
                        {i \in AllIndices(values) : C10_Listed(values, i, w, t)})
                 /\ C10_Records(values, result, w, t)

\* C10 as amended: ... it emits a record at index i exactly when the entry at
\* i is itself non-missing and the listed conditions hold; the rest as stated.
C10_Changepoint ==
    called.fn = "changepoint" =>
        LET w == called.window
            t == called.threshold2
        IN  IF Len(values) < 2 * w + 1 THEN result = <<>>
            ELSE /\ FlagsExactly(result,
                        {i \in Present(values, AllIndices(values)) :
                            C10_Listed(values, i, w, t)})
                 /\ C10_Records(values, result, w, t)

\* C10 witness: with window 3, detect_changepoint emitted a medium record at
\* index 3 of a 7-entry sequence whose left window holds a missing entry and
\* two values.
C10_Witness ==
    /\ called.fn = "changepoint"
    /\ called.window = 3
    /\ Len(values) = 7
    /\ Len(result) = 1
    /\ result[1].index = 3
    /\ result[1].severity = "medium"
    /\ Cardinality(LeftOf(values, 3, 3)) = 2

\* C11: for a 20-value sequence whose first 10 values average about 0 and whose
\* last 10 average about 10 with low noise, detect_changepoint with window 5
\* and threshold 2.0 emits at least one record within one window of index 10,
\* and every record it emits near the shift has direction increase.
C11_Scenario3 ==
    (/\ called.fn = "changepoint"
     /\ called.window = DefaultWindow
     /\ called.threshold2 = 4
     /\ values \in Scenario3) =>
        /\ \E p \in 1..Len(result) :
               /\ result[p].index >= 10 - DefaultWindow
               /\ result[p].index <= 10 + DefaultWindow
        /\ \A p \in 1..Len(result) :
               (/\ result[p].index >= 10 - DefaultWindow
                /\ result[p].index <= 10 + DefaultWindow) =>
                   result[p].reason = "Changepoint (increase)"

\* C11 witness: on such a sequence the call with window 5 and threshold 2.0
\* flagged index 10 itself as an increase, and a neighbouring index too.
C11_Witness ==
    /\ called.fn = "changepoint"
    /\ called.window = DefaultWindow
    /\ called.threshold2 = 4
    /\ values \in Scenario3
    /\ \E p \in 1..Len(result) :
        /\ result[p].index = 10
        /\ result[p].reason = "Changepoint (increase)"
    /\ Len(result) >= 2

-----------------------------------------------------------------------------
(* Claims about the detector run, checked under Spec *)

\* The degenerate statistics of each detector on the column vs.
Degenerate(method_name, vs, a) ==
    LET P == Present(vs, AllIndices(vs)) IN
    CASE method_name = "zscore" -> P = {} \/ SSD(vs, P) = 0
      [] method_name = "iqr" ->
            \/ Cardinality(P) < 4
            \/ QuartileX4(vs, P, 3) = QuartileX4(vs, P, 1)
      [] method_name = "minmax" -> P = {}
      [] method_name = "changepoint" ->
            \A i \in a.window..(Len(vs) - a.window - 1) :
                \/ Cardinality(LeftOf(vs, i, a.window)) < 2
                \/ Cardinality(RightOf(vs, i, a.window)) < 2
                \/ PooledSq(vs, LeftOf(vs, i, a.window), RightOf(vs, i, a.window)) = 0

\* The candidates of the first k requested methods, in the order listed; with
\* skip, those of the degenerate detectors are left out.
RECURSIVE CandidatesOf(_, _, _, _)
CandidatesOf(a, vs, k, skip) ==
    IF k = 0 THEN <<>>
    ELSE CandidatesOf(a, vs, k - 1, skip)
         \o (IF skip /\ Degenerate(a.methods[k], vs, a) THEN <<>>
             ELSE Detector(a.methods[k], vs, a))

\* C12: a detector that hits a degenerate statistic contributes an empty
\* candidate list and nothing else changes: the written output equals
\* deduplicate of the other requested detectors' candidates, and the run still
\* completes and writes its output.
C12_DegenerateIsEmpty ==
    /\ exited # "error"
    /\ pc \in {"detect", "write", "done"}
    /\ \A p \in 1..Len(all_highlights) :
          ~Degenerate(all_highlights[p].method, values, args)
    /\ pc = "done" =>
        /\ exited = "ok"
        /\ output.written
        /\ mi = Len(args.methods) + 1
        /\ output.content = deduplicate(CandidatesOf(args, values, Len(args.methods), TRUE))

\* C12 witness: a finished run of iqr then minmax on a column with four
\* non-missing values and Q1 = Q3: the file holds the two minmax records.
C12_Witness ==
    /\ pc = "done"
    /\ args.methods = <<"iqr", "minmax">>
    /\ Cardinality(Present(values, AllIndices(values))) >= 4
    /\ Degenerate("iqr", values, args)
    /\ output.written
    /\ Len(output.content) = 2
    /\ \A p \in 1..2 : output.content[p].method = "minmax"

\* The candidate list of every requested method, by position in args.methods.
ResultsOf(a, vs) ==
    [j \in 1..Len(a.methods) |-> Detector(a.methods[j], vs, a)]

\* The positions in args.methods of the detectors with a candidate at index i,
\* and the severity rank of the candidate of position j there.
FlaggedBy(res, i) ==
    {j \in DOMAIN res : RecordsAt(res[j], i) # {}}

RankAt(res, j, i) ==
    severity_order(res[j][CHOOSE p \in RecordsAt(res[j], i) : TRUE].severity)

\* The earliest listed position among those of greatest rank at index i.
EarliestBest(res, i) ==
    LET F == FlaggedBy(res, i)
        rank == [j \in F |-> RankAt(res, j, i)]
    IN  CHOOSE j \in F :
            /\ \A k \in F : rank[k] <= rank[j]
            /\ \A k \in F : rank[k] = rank[j] => j <= k

\* C13: the requested methods run one after the other in the order listed,
\* their candidates are concatenated in that order, and deduplicate runs once
\* after the last detector; so when two methods flag the same index with equal
\* severity, the record of the method listed earlier is the one written.
C13_PipelineOrder ==
    /\ mi \in 1..(Len(args.methods) + 1)
    /\ \A p \in 1..Len(all_highlights) :
          \E j \in 1..(mi - 1) :
              /\ all_highlights[p].method = args.methods[j]
              /\ \A q \in 1..(p - 1) : \E k \in 1..j :
                     all_highlights[q].method = args.methods[k]
    /\ mi <= Len(args.methods) =>
        /\ pc = "detect"
        /\ main_highlights = <<>>
        /\ ~output.written
    /\ pc = "write" =>
        /\ all_highlights = CandidatesOf(args, values, Len(args.methods), FALSE)
        /\ main_highlights = deduplicate(all_highlights)
    /\ pc = "done" =>
        LET res == ResultsOf(args, values) IN
        /\ output.content = main_highlights
        /\ \A p \in 1..Len(output.content) :
             LET h == output.content[p]
                 j == EarliestBest(res, h.index)
             IN  /\ h.method = args.methods[j]
                 /\ \E q \in RecordsAt(res[j], h.index) : res[j][q] = h
        /\ \A j \in DOMAIN res : \A q \in 1..Len(res[j]) :
             \E p \in 1..Len(output.content) : output.content[p].index = res[j][q].index

\* C13 witness: iqr was listed before zscore, both flagged one index with the
\* same severity, and the written record at that index is the iqr one.
C13_Witness ==
    /\ pc = "done"
    /\ args.methods = <<"iqr", "zscore">>
    /\ \E p \in 1..Len(output.content) :
        LET i == output.content[p].index
            res == ResultsOf(args, values)
        IN  /\ FlaggedBy(res, i) = {1, 2}
            /\ RankAt(res, 1, i) = RankAt(res, 2, i)
            /\ output.content[p].method = "iqr"

-----------------------------------------------------------------------------
(* Claims about reduce_data, checked under SpecReduce *)

\* The call has returned a table.
ReduceReturned == rd_pc = "done" /\ rd_out.returned

\* The column the sort and rank-limit stages use: sort_by, else the value column.
RankColumn == IF rd_kwargs.sort_by # "" THEN rd_kwargs.sort_by ELSE rd_kwargs.y_col

\* The call aggregates / collapses nothing, so the table that enters the sort
\* stage is rd_df and the one that leaves the rank-limit stage is returned.
NoAggregation ==
    rd_kwargs.groupby = "" \/ rd_kwargs.agg = "" \/ ~HasColumn(rd_df, rd_kwargs.groupby)

NoCollapse == rd_kwargs.max_categories = 0 \/ rd_kwargs.x_col = ""

RowSet(rows) == {rows[i] : i \in 1..Len(rows)}

\* rows is ordered by column col, descending (dir = -1) or ascending (dir = 1).
OrderedBy(rows, col, dir) ==
    \A p, q \in 1..Len(rows) :
        p < q => dir * CellKey(rows[p][col]) <= dir * CellKey(rows[q][col])

\* kept holds n distinct rows of all (or all of them when there are fewer), and
\* no row left out comes before a kept one in direction dir.
KeepsExtreme(kept, all, n, col, dir) ==
    /\ Len(kept) = (IF n <= Len(all) THEN n ELSE Len(all))
    /\ RowSet(kept) \subseteq RowSet(all)
    /\ Cardinality(RowSet(kept)) = Len(kept)
    /\ \A r \in RowSet(all) \ RowSet(kept) : \A k \in RowSet(kept) :
           dir * CellKey(k[col]) <= dir * CellKey(r[col])

\* C14 as stated: for every table and every N > 0, a call with top = N and a
\* sort column that is in the table returns min(N, rows) rows, ordered
\* descending by the sort column.
C14_Original ==
    (/\ rd_pc = "done"
     /\ rd_kwargs.top > 0
     /\ NoAggregation
     /\ NoCollapse
     /\ HasColumn(rd_df, RankColumn))
    => /\ rd_out.returned
       /\ KeepsExtreme(rd_out.df.rows, rd_df.rows, rd_kwargs.top, RankColumn, 0 - 1)
       /\ OrderedBy(rd_out.df.rows, RankColumn, 0 - 1)

\* C15: the rank-limit stage applies top or bottom, never both, top first: with
\* top > 0 the returned rows are the top-N in descending order, with top absent
\* and bottom > 0 the bottom-N in ascending order, whichever direction the sort
\* stage was asked for.
C15_RankLimit ==
    (/\ ReduceReturned
     /\ NoAggregation
     /\ NoCollapse
     /\ HasColumn(rd_df, RankColumn))
    => /\ rd_kwargs.top > 0 =>
            /\ KeepsExtreme(rd_out.df.rows, rd_df.rows, rd_kwargs.top, RankColumn, 0 - 1)
            /\ OrderedBy(rd_out.df.rows, RankColumn, 0 - 1)
       /\ (rd_kwargs.top = 0 /\ rd_kwargs.bottom > 0) =>
            /\ KeepsExtreme(rd_out.df.rows, rd_df.rows, rd_kwargs.bottom, RankColumn, 1)
            /\ OrderedBy(rd_out.df.rows, RankColumn, 1)

\* C15 witness: top = 1 and bottom = 2 with an ascending sort on a table of
\* three rows that are not all equal: one row is returned, the largest.
C15_Witness ==
    /\ ReduceReturned
    /\ rd_kwargs.top = 1
    /\ rd_kwargs.bottom = 2
    /\ rd_kwargs.sort_order = "asc"
    /\ rd_kwargs.max_categories = 0
    /\ Len(rd_df.rows) = 3
    /\ Len(rd_out.df.rows) = 1
    /\ \E i \in 1..3 : rd_df.rows[i].value.v < rd_out.df.rows[1].value.v

\* The tables that can enter the category-collapse stage of the call: what the
\* first three stages can hand on.
Entering(df, kw) ==
    {r.df : r \in {x \in UNION {RankLimit(t, kw) : t \in SortStage(Aggregate(df, kw), kw)} :
                      x.returned}}

\* The sum of column c over the rows of the sequence from position p on.
RECURSIVE ColumnSumFrom(_, _, _)
ColumnSumFrom(rows, c, p) ==
    IF p > Len(rows) THEN 0
    ELSE rows[p][c].v + ColumnSumFrom(rows, c, p + 1)

\* out is the table t collapsed to k categories of column x.
CollapsedTo(t, out, k, x) ==
    IF Len(t.rows) <= k THEN out = t
    ELSE /\ out.columns = t.columns
         /\ Len(out.rows) = k + 1
         /\ \A p \in 1..k : out.rows[p] = t.rows[p]
         /\ out.rows[k + 1][x] = TextCell("Other")
         /\ \A c \in ColumnSet(t) \ {x} :
              out.rows[k + 1][c] =
                 IF c \in t.numeric THEN NumCell(ColumnSumFrom(t.rows, c, k + 1))
                 ELSE TextCell("Other")

\* C16: a table of n rows that enters the category-collapse stage with
\* max_categories = k > 0 and its category column leaves it, when n > k, as
\* k + 1 rows: its first k rows unchanged and in order, then one row whose
\* category is "Other", whose numeric columns hold the sums over the n - k
\* rows left out and whose other columns hold "Other"; when n <= k it leaves
\* unchanged.
C16_CategoryCollapse ==
    (/\ ReduceReturned
     /\ rd_kwargs.max_categories > 0
     /\ rd_kwargs.x_col # "")
    => \E t \in Entering(rd_df, rd_kwargs) :
          /\ HasColumn(t, rd_kwargs.x_col) =>
                CollapsedTo(t, rd_out.df, rd_kwargs.max_categories, rd_kwargs.x_col)
          /\ ~HasColumn(t, rd_kwargs.x_col) => rd_out.df = t

\* C16 witness: three rows collapsed to one category: the returned table has
\* two rows, the second is Other with the sums of the two rows left out.
C16_Witness ==
    /\ ReduceReturned
    /\ rd_kwargs.max_categories = 1
    /\ rd_kwargs.x_col = "category"
    /\ NoAggregation
    /\ rd_kwargs.top = 0
    /\ Len(rd_df.rows) = 3
    /\ Len(rd_out.df.rows) = 2
    /\ rd_out.df.rows[1] \in RowSet(rd_df.rows)
    /\ rd_out.df.rows[2].category = TextCell("Other")
    /\ rd_out.df.rows[2].label = TextCell("Other")
    /\ rd_out.df.rows[2].qty = NumCell(2)
    /\ rd_out.df.rows[2].value = NumCell(3)

\* The call of scenario 4 has returned.
Scenario4Done ==
    /\ ReduceReturned
    /\ rd_df \in Scenario4Tables
    /\ rd_kwargs = Scenario4Kwargs

CategoriesOf(rows) == [p \in 1..Len(rows) |-> rows[p].category.s]

\* C17 as stated: the returned rows are A, B and Other, and Other's value is the
\* sum of the values of C, D and E.
C17_Original ==
    Scenario4Done =>
        /\ CategoriesOf(rd_out.df.rows) = <<"A", "B", "Other">>
        /\ rd_out.df.rows[3].value.v =
              rd_df.rows[3].value.v + rd_df.rows[4].value.v + rd_df.rows[5].value.v

\* C17: for the table with the categories A to E, max_categories = 3 returns
\* four rows: three rows of the table in descending order of value, none
\* smaller than a row left out, then Other, whose value is the sum of the values
\* of the two rows left out.
C17_Scenario4 ==
    Scenario4Done =>
        LET out == rd_out.df.rows
            kept == SubSeq(out, 1, 3)
            left == RowSet(rd_df.rows) \ RowSet(kept)
        IN  /\ Len(out) = 4
            /\ KeepsExtreme(kept, rd_df.rows, 3, "value", 0 - 1)
            /\ OrderedBy(kept, "value", 0 - 1)
            /\ out[4].category = TextCell("Other")
            /\ Cardinality(left) = 2
            /\ \E a, b \in left :
                  a # b /\ out[4].value.v = a.value.v + b.value.v

\* C17 witness: the values of A to E are 2, 2, 2, 1, 1: the returned rows are
\* A, B and C in some order and Other, whose value is 2.
C17_Witness ==
    /\ Scenario4Done
    /\ \A i \in 1..5 : rd_df.rows[i].value.v = (IF i <= 3 THEN 2 ELSE 1)
    /\ {rd_out.df.rows[p].category.s : p \in 1..3} = {"A", "B", "C"}
    /\ rd_out.df.rows[4].category.s = "Other"
    /\ rd_out.df.rows[4].value.v = 2

\* The sum of the value column over the rows S of the call's table.
RECURSIVE ValueSum(_)
ValueSum(S) ==
    IF S = {} THEN 0
    ELSE LET i == CHOOSE j \in S : TRUE
         IN  rd_df.rows[i].value.v + ValueSum(S \ {i})

\* The greatest sum of the values of n rows of the call's table.
TopSum(n) ==
    LET sums == {ValueSum(S) : S \in {T \in SUBSET (1..Len(rd_df.rows)) : Cardinality(T) = n}}
    IN  CHOOSE m \in sums : \A x \in sums : x <= m

\* The sum of the values of the rows of the call's table in category c.
GroupTotal(c) == ValueSum({i \in 1..Len(rd_df.rows) : rd_df.rows[i].category.s = c})

CategoriesIn(rows) == {rows[i].category.s : i \in 1..Len(rows)}

\* The group-by column sums by category and top = N ranks, nothing collapses:
\* the returned rows are groups with their totals, the N greatest, descending.
RanksTheGroups ==
    (/\ ReduceReturned
     /\ rd_kwargs.groupby = "category"
     /\ rd_kwargs.agg = "sum"
     /\ rd_kwargs.top > 0
     /\ rd_kwargs.max_categories = 0)
    => LET out == rd_out.df.rows
           key == rd_out.df.columns[1]
           cats == CategoriesIn(rd_df.rows)
           kept == {out[p][key].s : p \in 1..Len(out)}
       IN  /\ Len(out) = Min2(rd_kwargs.top, Cardinality(cats))
           /\ Cardinality(kept) = Len(out)
           /\ kept \subseteq cats
           /\ \A p \in 1..Len(out) : out[p].value.v = GroupTotal(out[p][key].s)
           /\ \A p, q \in 1..Len(out) : p < q => out[p].value.v >= out[q].value.v
           /\ \A c \in cats \ kept : \A p \in 1..Len(out) : GroupTotal(c) <= out[p].value.v

\* top = N and max_categories = k < N on more than N rows, no aggregation: the
\* k greatest rows are kept and Other holds the N - k rows ranked after them.
OtherSumsTheRanked ==
    (/\ ReduceReturned
     /\ NoAggregation
     /\ rd_kwargs.x_col = "category"
     /\ rd_kwargs.max_categories > 0
     /\ rd_kwargs.top > rd_kwargs.max_categories
     /\ Len(rd_df.rows) > rd_kwargs.top)
    => LET out == rd_out.df.rows
           k == rd_kwargs.max_categories
       IN  /\ Len(out) = k + 1
           /\ KeepsExtreme(SubSeq(out, 1, k), rd_df.rows, k, "value", 0 - 1)
           /\ out[k + 1].category = TextCell("Other")
           /\ out[k + 1].qty.v = rd_kwargs.top - k
           /\ ColumnSumFrom(out, "value", 1) = TopSum(rd_kwargs.top)

\* C18: the stages run in the order aggregate, sort, rank-limit, collapse, each
\* on the previous stage's output: the ranking is over the aggregated groups,
\* and with top = N and max_categories = k < N on more than N rows the Other
\* row sums only the rows ranked k+1..N.
C18_StageOrder == RanksTheGroups /\ OtherSumsTheRanked

\* C18 witness: top = 2 and max_categories = 1 on three rows: two rows are
\* returned, Other stands for one row, and a row of the table is in neither.
C18_Witness ==
    /\ ReduceReturned
    /\ NoAggregation
    /\ rd_kwargs.x_col = "category"
    /\ rd_kwargs.top = 2
    /\ rd_kwargs.max_categories = 1
    /\ Len(rd_df.rows) = 3
    /\ Len(rd_out.df.rows) = 2
    /\ rd_out.df.rows[2].qty.v = 1
    /\ ColumnSumFrom(rd_out.df.rows, "value", 1) < ValueSum(1..3)

\* kept is rows with some of its entries left out: the order is that of rows.
RECURSIVE IsSubsequence(_, _)
IsSubsequence(kept, rows) ==
    IF kept = <<>> THEN TRUE
    ELSE IF rows = <<>> THEN FALSE
    ELSE IF Head(kept) = Head(rows) THEN IsSubsequence(Tail(kept), Tail(rows))
    ELSE IsSubsequence(kept, Tail(rows))

\* The rows of the returned table other than an Other row.
KeptRows ==
    LET IsKept(r) == r.label # TextCell("Other")
    IN  SelectSeq(rd_out.df.rows, IsKept)

\* C19 as stated: a stage whose parameters were not supplied is the identity: a
\* call with no reduction parameter returns the rows of its input in the same
\* order, and a call that supplies only max_categories (with the category
\* column) keeps rows in the order of the input.
C19_Original ==
    /\ (rd_pc = "done" /\ rd_kwargs = Defaults)
        => (rd_out.returned /\ rd_out.df = rd_df)
    /\ (/\ rd_pc = "done"
        /\ rd_kwargs.max_categories > 0
        /\ rd_kwargs = [Defaults EXCEPT !.x_col = "category",
                                        !.max_categories = rd_kwargs.max_categories])
        => (rd_out.returned /\ IsSubsequence(KeptRows, rd_df.rows))

\* The call names a column that the table lacks: as the group-by column of an
\* aggregation, as the sort column, or as the category column of a collapse.
NamesAbsentColumn ==
    \/ /\ rd_kwargs.groupby # ""
       /\ rd_kwargs.agg # ""
       /\ ~HasColumn(rd_df, rd_kwargs.groupby)
    \/ /\ rd_kwargs.sort_by # ""
       /\ ~HasColumn(rd_df, rd_kwargs.sort_by)
    \/ /\ rd_kwargs.max_categories > 0
       /\ rd_kwargs.x_col # ""
       /\ NoAggregation
       /\ ~HasColumn(rd_df, rd_kwargs.x_col)

\* C20 as stated: a call that names an absent column raises instead of passing
\* the table through, and a call on an empty table that names no absent column
\* never raises.
C20_Original ==
    rd_pc = "done" =>
        /\ NamesAbsentColumn => rd_out.raised
        /\ (rd_df.rows = <<>> /\ ~NamesAbsentColumn) => rd_out.returned

-----------------------------------------------------------------------------
(* Claims about the command line of the detector run, checked under SpecCli *)

ColumnNamesOf(f) == {f.columns[i].name : i \in 1..Len(f.columns)}

\* The three rejected inputs.
MissingFile == ~data_file.exists

MissingColumn ==
    /\ data_file.exists
    /\ data_file.parses
    /\ args.column # ""
    /\ args.column \notin ColumnNamesOf(data_file)

NoNumericToSelect ==
    /\ data_file.exists
    /\ data_file.parses
    /\ args.column = ""
    /\ \A i \in 1..Len(data_file.columns) : ~data_file.columns[i].numeric

\* Nothing of the detector run has happened and no output file exists.
NothingRun ==
    /\ mi = 0
    /\ values = <<>>
    /\ all_highlights = <<>>
    /\ main_highlights = <<>>
    /\ output = NoFile
    /\ writes = 0

\* C21: when the data file does not exist, when the requested column is not in
\* the table, or when no column was requested and the table has no numeric
\* column, the run ends with a diagnostic and a nonzero exit status; no
\* detector runs and the output file is neither created nor written.
C21_FailsCleanly ==
    (MissingFile \/ MissingColumn \/ NoNumericToSelect)
    => /\ NothingRun
       /\ pc \in {"start", "done"}
       /\ pc = "start" => (exited = "no" /\ stderr = "")
       /\ pc = "done" =>
            /\ exited = "error"
            /\ MissingFile => stderr = "Error: Data file not found"
            /\ MissingColumn => stderr = "Error: Column not found"
            /\ NoNumericToSelect => stderr = "Error: No numeric columns found in data."

\* C21 witness: no column was requested, the table has two text columns, and
\* the run has ended with the diagnostic and exit status 1.
C21_Witness ==
    /\ pc = "done"
    /\ NoNumericToSelect
    /\ Len(data_file.columns) = 2
    /\ exited = "error"
    /\ stderr = "Error: No numeric columns found in data."
    /\ output = NoFile

\* C22 as stated: every run ends in success with the output file written once,
\* or in a reported failure (a diagnostic of main and exit status 1) with no
\* output; no exception leaves main, and a requested column that cannot be
\* converted to numbers is reported as an invalid column.
C22_Original ==
    pc = "done" =>
        \/ /\ exited = "ok"
           /\ writes = 1
           /\ output.written
        \/ /\ exited = "error"
           /\ stderr \notin {"", "Traceback"}
           /\ writes = 0
           /\ output = NoFile

-----------------------------------------------------------------------------
(* Claims about generate, checked under SpecGenerate *)

\* The columns the call refers to: x, each y, and the colour/size/group columns.
ReferencedColumns ==
    ({gen_call.x_col}
        \cup {gen_call.y_cols[i] : i \in 1..Len(gen_call.y_cols)}
        \cup {gen_call.extra_cols[i] : i \in 1..Len(gen_call.extra_cols)}) \ {""}

\* C23 as stated: a referenced column that the loaded table lacks ends the call
\* with the diagnostic and exit status 1 before the reduction or the rendering
\* begins, whether or not a group-by column was supplied.
C23_Original ==
    (\E c \in ReferencedColumns : ~HasColumn(gen_loaded, c))
    => /\ gen_pc \in {"start", "done"}
       /\ gen_df = gen_loaded
       /\ gen_pc = "done" =>
            /\ gen_exited = "error"
            /\ gen_stderr = "Error: Column not found"

\* The call supplies a sort column or the ascending direction and no other
\* reduction option; the column sorted by is in the loaded table.
SortOnly ==
    /\ ~has_reduction(gen_call.kwargs)
    /\ gen_call.kwargs.sort_by # "" \/ gen_call.kwargs.sort_order = "asc"
    /\ HasColumn(gen_loaded, sort_col(reduce_kwargs(gen_call)))

\* C24 as stated: a call that supplies only a sort column and/or direction
\* passes the table through the sort stage: the rendered table holds the rows
\* of the loaded table ordered by that column in the requested direction.
C24_Original ==
    (SortOnly /\ gen_pc = "done" /\ gen_exited = "ok")
    => /\ RowSet(gen_df.rows) = RowSet(gen_loaded.rows)
       /\ OrderedBy(gen_df.rows, sort_col(reduce_kwargs(gen_call)),
                    IF gen_call.kwargs.sort_order = "asc" THEN 1 ELSE 0 - 1)

-----------------------------------------------------------------------------
(* The aggregate stage of reduce_data, checked under SpecReduce *)

\* The call aggregates, and no later stage drops or merges rows.
AggregatesOnly ==
    /\ rd_pc = "done"
    /\ rd_kwargs.groupby # ""
    /\ rd_kwargs.agg # ""
    /\ HasColumn(rd_df, rd_kwargs.groupby)
    /\ rd_kwargs.top = 0
    /\ rd_kwargs.bottom = 0
    /\ rd_kwargs.max_categories = 0

\* The numeric columns of the input other than the group-by column, in order.
OtherNumeric ==
    LET Other(c) == c \in rd_df.numeric /\ c # rd_kwargs.groupby
    IN  SelectSeq(rd_df.columns, Other)

\* The name the group-key column has after the stage.
KeyName ==
    IF /\ rd_kwargs.x_col # ""
       /\ rd_kwargs.x_col # rd_kwargs.groupby
       /\ \A i \in 1..Len(OtherNumeric) : OtherNumeric[i] # rd_kwargs.x_col
    THEN rd_kwargs.x_col
    ELSE rd_kwargs.groupby

\* The sum of column c over the input rows of key k from position p on.
RECURSIVE KeySumFrom(_, _, _)
KeySumFrom(c, k, p) ==
    IF p > Len(rd_df.rows) THEN 0
    ELSE (IF rd_df.rows[p][rd_kwargs.groupby] = k THEN rd_df.rows[p][c].v ELSE 0)
         + KeySumFrom(c, k, p + 1)

\* x is the aggregate of column c over the input rows of key k.
IsAggregate(x, c, k) ==
    LET members == {i \in 1..Len(rd_df.rows) : rd_df.rows[i][rd_kwargs.groupby] = k}
    IN  CASE rd_kwargs.agg = "sum" -> x = KeySumFrom(c, k, 1)
          [] rd_kwargs.agg = "count" -> x = Cardinality(members)
          [] rd_kwargs.agg = "max" ->
                /\ \E i \in members : rd_df.rows[i][c].v = x
                /\ \A i \in members : rd_df.rows[i][c].v <= x
          [] rd_kwargs.agg = "min" ->
                /\ \E i \in members : rd_df.rows[i][c].v = x
                /\ \A i \in members : rd_df.rows[i][c].v >= x

\* C25: after the aggregate stage the table has one row per distinct group key
\* holding the aggregate of every other numeric column; the key column carries
\* the caller's x-column name exactly when that name differs from the group-by
\* name and is no column of the aggregated table, and its own name otherwise.
C25_AggregateStage ==
    AggregatesOnly =>
        /\ rd_out.returned
        /\ LET out == rd_out.df
               n == Len(out.rows)
           IN  /\ out.columns = <<KeyName>> \o OtherNumeric
               /\ {out.rows[p][KeyName] : p \in 1..n}
                    = {rd_df.rows[i][rd_kwargs.groupby] : i \in 1..Len(rd_df.rows)}
               /\ \A p, q \in 1..n :
                    out.rows[p][KeyName] = out.rows[q][KeyName] => p = q
               /\ \A p \in 1..n : \A j \in 1..Len(OtherNumeric) :
                    /\ ~out.rows[p][OtherNumeric[j]].text
                    /\ IsAggregate(out.rows[p][OtherNumeric[j]].v, OtherNumeric[j],
                                   out.rows[p][KeyName])

\* Three rows in two groups were summed and the key column was renamed.
C25_Witness ==
    /\ AggregatesOnly
    /\ rd_kwargs.agg = "sum"
    /\ rd_kwargs.x_col = "region"
    /\ Len(rd_df.rows) = 3
    /\ rd_out.returned
    /\ Len(rd_out.df.rows) = 2
    /\ rd_out.df.columns[1] = "region"
    /\ \E p \in 1..2 : rd_out.df.rows[p].value.v = 4

-----------------------------------------------------------------------------
(* Claims about the records of a detector run, checked under Spec *)

\* The record names an index of the column, the entry there is not missing,
\* and the record's value is that entry.
PointsAtEntry(r) ==
    /\ r.index >= 0
    /\ r.index < Len(values)
    /\ ~isnan(values[r.index + 1])
    /\ r.value = values[r.index + 1].v

\* C26: every record a detector emitted, and so every record of the
\* deduplicated output and of the written file, has an index i with
\* 0 <= i < sequence length, refers to a non-missing entry, and carries the
\* value of the sequence at i.
C26_RecordsPointAtEntries ==
    /\ \A k \in 1..Len(all_highlights) : PointsAtEntry(all_highlights[k])
    /\ \A k \in 1..Len(main_highlights) : PointsAtEntry(main_highlights[k])
    /\ output.written =>
          \A k \in 1..Len(output.content) : PointsAtEntry(output.content[k])

\* A finished run whose file holds a changepoint record and a min/max record.
C26_Witness ==
    /\ pc = "done"
    /\ output.written
    /\ \E k \in 1..Len(output.content) : output.content[k].method = "changepoint"
    /\ \E k \in 1..Len(output.content) : output.content[k].method = "minmax"
    /\ \E k \in 1..Len(all_highlights) : all_highlights[k].index = Len(values) - 1

\* C27: whatever the sequence and the order of the requested methods, a
\* min/max record is in the deduplicated list at index i only if no z-score,
\* IQR or changepoint candidate exists at i; min/max records are of severity
\* low and every other detector's records are medium or high.
C27_MinmaxNeverWins ==
    /\ \A j \in 1..Len(all_highlights) :
          IF all_highlights[j].method = "minmax"
          THEN all_highlights[j].severity = "low"
          ELSE all_highlights[j].severity \in {"medium", "high"}
    /\ pc \in {"write", "done"} =>
          \A k \in 1..Len(main_highlights) :
              main_highlights[k].method = "minmax" =>
                  \A j \in 1..Len(all_highlights) :
                      all_highlights[j].index = main_highlights[k].index
                          => all_highlights[j].method = "minmax"

\* minmax was listed first and its record met another detector's candidate at
\* the same index, which is the one the deduplicated list holds.
C27_Witness ==
    /\ pc = "done"
    /\ Len(args.methods) = 2
    /\ args.methods[1] = "minmax"
    /\ \E j, k \in 1..Len(all_highlights) :
          /\ j < k
          /\ all_highlights[j].method = "minmax"
          /\ all_highlights[k].method # "minmax"
          /\ all_highlights[j].index = all_highlights[k].index
          /\ \E q \in 1..Len(main_highlights) : main_highlights[q] = all_highlights[k]

\* The positions of the column's non-missing entries.
PresentAt == {i \in 1..Len(values) : ~isnan(values[i])}

\* The maximum and the minimum fall on the same index: the column has a
\* value, and all its values are equal.
AllEqual ==
    /\ PresentAt # {}
    /\ \A i, j \in PresentAt : values[i].v = values[j].v

\* detect_minmax has returned in this run.
MinmaxRan ==
    \E j \in 1..Len(args.methods) : j < mi /\ args.methods[j] = "minmax"

\* C28: when all non-missing values are equal (a single value included),
\* detect_minmax returns two records of one index, the maximum first, and
\* deduplicate keeps only the "Global maximum" record: neither the
\* deduplicated list nor the written file holds a "Global minimum" record.
C28_SharedIndex ==
    AllEqual =>
        /\ MinmaxRan =>
              LET IsMinmax(r) == r.method = "minmax"
                  found == SelectSeq(all_highlights, IsMinmax)
                  first == CHOOSE i \in PresentAt : \A j \in PresentAt : i <= j
              IN  /\ Len(found) = 2
                  /\ found[1].reason = "Global maximum"
                  /\ found[2].reason = "Global minimum"
                  /\ found[1].index = first - 1
                  /\ found[2].index = first - 1
                  /\ pc \in {"write", "done"} => main_highlights = <<found[1]>>
        /\ \A k \in 1..Len(main_highlights) :
              main_highlights[k].reason # "Global minimum"
        /\ output.written =>
              \A k \in 1..Len(output.content) :
                  output.content[k].reason # "Global minimum"

\* A column with a single value went through minmax and deduplicate, and the
\* file holds the one "Global maximum" record.
C28_Witness ==
    /\ pc = "done"
    /\ Cardinality(PresentAt) = 1
    /\ Len(values) = 2
    /\ MinmaxRan
    /\ Len(all_highlights) = 2
    /\ output.written
    /\ Len(output.content) = 1
    /\ output.content[1].reason = "Global maximum"

-----------------------------------------------------------------------------
(* Small windows of detect_changepoint, checked under SpecChange *)

\* C29: whatever the sequence, detect_changepoint called with a window size
\* of 0 or 1 returns an empty list, also when the sequence is long enough to
\* pass the length precondition n >= 2 * window + 1.
C29_SmallWindows ==
    (called.fn = "changepoint" /\ called.window \in {0, 1}) => result = <<>>

\* The call with window 1 on a sequence without missing entries that passes
\* the length precondition and steps from 0 to 1 returned nothing.
C29_Witness ==
    /\ called.fn = "changepoint"
    /\ called.window = 1
    /\ Len(values) >= 2 * called.window + 1
    /\ \A i \in 1..Len(values) : ~isnan(values[i])
    /\ \E i \in 2..(Len(values) - 1) : values[i].v = 0 /\ values[i + 1].v = 1
    /\ result = <<>>

-----------------------------------------------------------------------------
(* The output file of a detector run, checked under SpecCli *)

\* The input passes validation: the file exists and loads, and the column to
\* analyse (the requested one, else a numeric one) is a numeric column of it.
ValidInput ==
    /\ data_file.exists
    /\ data_file.parses
    /\ \E i \in 1..Len(data_file.columns) :
          /\ data_file.columns[i].numeric
          /\ args.column \in {"", data_file.columns[i].name}

\* The position of the run: 0 before the column is loaded, then one step for
\* each requested detector, one for deduplicate and one for the write.
StepsTaken ==
    CASE pc = "start" -> 0
      [] pc = "detect" -> mi
      [] pc = "write" -> Len(args.methods) + 2
      [] pc = "done" -> Len(args.methods) + 3

\* C30: on every run whose input passes validation the output file is written
\* exactly once and only after all requested detectors and deduplicate have
\* completed: it exists exactly when the run has ended, and holds the
\* deduplicated list, one record for each flagged index; when nothing was
\* flagged it is written as an empty array; and the run ends in success: it
\* never leaves with an error or an exception, and at its end the exit is 0.
C30_WrittenOnceAtTheEnd ==
    ValidInput =>
        /\ writes = (IF pc = "done" THEN 1 ELSE 0)
        /\ output.written <=> pc = "done"
        /\ exited = (IF pc = "done" THEN "ok" ELSE "no")
        /\ stderr = ""
        /\ StepsTaken <= Len(args.methods) + 3
        /\ Len(all_highlights) > 0 => StepsTaken >= 2
        /\ main_highlights # <<>> => StepsTaken >= Len(args.methods) + 2
        /\ pc = "done" =>
              /\ mi = Len(args.methods) + 1
              /\ output.content = main_highlights
              /\ {output.content[k].index : k \in 1..Len(output.content)}
                    = {all_highlights[k].index : k \in 1..Len(all_highlights)}
              /\ \A j, k \in 1..Len(output.content) :
                    output.content[j].index = output.content[k].index => j = k
              /\ all_highlights = <<>> => output.content = <<>>

\* A run of two detectors that flagged nothing has ended in success with the
\* file written as the empty array.
C30_Witness ==
    /\ ValidInput
    /\ pc = "done"
    /\ Len(args.methods) = 2
    /\ all_highlights = <<>>
    /\ output = [written |-> TRUE, content |-> <<>>]
    /\ writes = 1
    /\ exited = "ok"

=============================================================================
